---- MODULE Spec2Model ----
(***************************************************************************)
(* IoT intrusion dashboard: the device-access decision engine              *)
(* (routes/device-access.js: connect / disconnect), its two audit          *)
(* recorders and the alerts API (routes/alerts.js), over the relational    *)
(* tables devices, users, blocked_attempts and security_alerts.            *)
(*                                                                         *)
(* Every handler is an async function: it runs atomically between two      *)
(* awaits, and every await is a persistence call.  One action below is one *)
(* such segment: the database statement the handler awaits, followed by    *)
(* the synchronous code up to the next await or up to the response.        *)
(***************************************************************************)
EXTENDS FiniteSets, Integers, Sequences, TLC

\* ------------------------------------------------------------------ bounds
MaxBlocked == 2          \* rows of blocked_attempts the model lets requests write
MaxAlerts == 2           \* rows of security_alerts the model lets requests write

Reqs == {"r1", "r2"}     \* request contexts that can be in flight together

\* ------------------------------------------------------------ SQL / JS values
NullStr == "<null>"      \* SQL NULL / JS null in a text column

\* ------------------------------------------------------------------ parseInt
DigitVal ==
    "0" :> 0 @@ "1" :> 1 @@ "2" :> 2 @@ "3" :> 3 @@ "4" :> 4 @@
    "5" :> 5 @@ "6" :> 6 @@ "7" :> 7 @@ "8" :> 8 @@ "9" :> 9

RECURSIVE TrimStart(_)
TrimStart(s) ==
    IF s # <<>> /\ Head(s) = " " THEN TrimStart(Tail(s)) ELSE s

RECURSIVE DigitPrefix(_)
DigitPrefix(s) ==
    IF s = <<>> \/ Head(s) \notin DOMAIN DigitVal
    THEN <<>>
    ELSE <<Head(s)>> \o DigitPrefix(Tail(s))

RECURSIVE Decimal(_, _)
Decimal(ds, acc) ==
    IF ds = <<>> THEN acc ELSE Decimal(Tail(ds), acc * 10 + DigitVal[Head(ds)])

\* parseInt(string): leading white space is skipped, then an optional sign,
\* then the longest run of decimal digits; whatever follows is ignored.  No
\* digit at that place gives NaN.
ParseInt(s) ==
    LET t    == TrimStart(s)
        neg  == t # <<>> /\ Head(t) = "-"
        body == IF t # <<>> /\ Head(t) \in {"-", "+"} THEN Tail(t) ELSE t
        ds   == DigitPrefix(body)
    IN  IF ds = <<>>
        THEN [nan |-> TRUE, val |-> 0]
        ELSE [nan |-> FALSE, val |-> IF neg THEN 0 - Decimal(ds, 0) ELSE Decimal(ds, 0)]

IsNaN(p) == p.nan

\* ------------------------------------------------------------------ JSON
\* A text is either the JSON text of an object (given by its set of keys) or
\* some other string.  JSON.stringify(object) gives the former; String(object),
\* which JSON.parse applies to an argument that is not a string, gives
\* "[object Object]".
JsonStringify(obj) == [text |-> "json", obj |-> obj]

StringOf(obj) == [text |-> "[object Object]", obj |-> {}]

\* JSON.parse(text): the object of a JSON text, a SyntaxError on anything else
JsonParse(t) ==
    IF t.text = "json" THEN [ok |-> TRUE, obj |-> t.obj] ELSE [ok |-> FALSE, obj |-> {}]

\* a value bound to a JSONB column: the text is parsed by the server and the
\* column holds the object; the driver hands a JSONB column back as an object
ToJsonb(texts) == {JsonParse(t).obj : t \in {x \in texts : JsonParse(x).ok}}

\* ------------------------------------------------------------------ state
VARIABLES
    users,              \* table users: id -> [role]
    devices,            \* table devices: id -> [status, firmware_version]
    blocked_attempts,   \* table blocked_attempts, in insertion order
    security_alerts,    \* table security_alerts, in insertion order
    session,            \* per user: req.session.connectedDevice (none or one)
    req,                \* per request context: the handler's position and locals
    storage,            \* "up", or "down": every statement throws after its retries
    auth,               \* the users whose session holds req.session.user
    devices_id_seq      \* the sequence of devices.id: the last value it gave

\* the state of config/database.js and of the migrator
VARIABLES
    pool,              \* held: clients checked out of the pool and not released;
                       \* over: releases of a client that was not checked out
    call,              \* the running query, transaction or executeMigration call
    migrations,        \* the rows of the migrations table, in insertion order
    schema,            \* applied: migration files whose statements are committed;
                       \* open: statements of the open transaction
    run                \* the running runMigrations call

dbVars == <<pool, call, migrations, schema, run>>

vars == <<users, devices, blocked_attempts, security_alerts, session, req, storage,
          auth, devices_id_seq, pool, call, migrations, schema, run>>

\* no database.js call is running
NoCall == [fn |-> "none", pc |-> "idle"]

\* no runMigrations call is running
NoRun == [pc |-> "idle"]

\* the pool after new Pool(...), and a database without a migrations row
DbInit ==
    /\ pool = [held |-> 0, over |-> 0]
    /\ call = NoCall
    /\ migrations = <<>>
    /\ schema = [applied |-> {}, open |-> {}]
    /\ run = NoRun

Idle == [op |-> "idle", pc |-> "idle"]

InFlight == {r \in Reqs : req[r].pc \notin {"idle", "done"}}

\* the handler has taken the steps named by events, in this order, after the
\* steps its log holds
Logged(q, events) == [q EXCEPT !.log = @ \o events]

\* a response of the device-access router: status, kind of body and the device
\* object of the body (none or one); before is the connection the session held
\* when the responding segment began
Respond(q, status, kind, device) ==
    [op |-> q.op, user |-> q.user, raw |-> q.raw, deviceId |-> q.deviceId,
     pc |-> "done", status |-> status, kind |-> kind, device |-> device,
     before |-> session[q.user], log |-> q.log \o <<"respond">>]

\* the response has been sent: the request context ends
EndRequest(r) ==
    /\ req[r].pc = "done"
    /\ req' = [req EXCEPT ![r] = Idle]
    /\ UNCHANGED dbVars
    /\ UNCHANGED <<users, devices, blocked_attempts, security_alerts, session, storage, auth,
                   devices_id_seq>>

\* ------------------------------------------------------------------ tables
\* DeviceQuery with has_security_enabled computed as firmware_version IS NOT
\* NULL alone: an empty string counts as secured
DeviceQuery_NullOnly(devs, id) ==
    IF id \in DOMAIN devs
    THEN {[id |-> id,
           status |-> devs[id].status,
           firmware_version |-> devs[id].firmware_version,
           has_security_enabled |-> (devs[id].firmware_version # NullStr)]}
    ELSE {}

\* SELECT ... FROM devices WHERE id = $1, with the computed column
\* has_security_enabled
DeviceQuery(devs, id) ==
    IF id \in DOMAIN devs
    THEN {[id |-> id,
           status |-> devs[id].status,
           firmware_version |-> devs[id].firmware_version,
           has_security_enabled |->
               (devs[id].firmware_version # NullStr /\ devs[id].firmware_version # "")]}
    ELSE {}

\* an insert that looks for a row of the same source_ip and counts the attempt
\* on it instead of adding a row
InsertBlockedAttempt_Coalesce(tbl, devs, data) ==
    LET same == {i \in 1..Len(tbl) : tbl[i].source_ip = data.source_ip}
    IN  IF data.target_device_id \notin DOMAIN devs
        THEN [ok |-> FALSE, rows |-> tbl]
        ELSE IF same = {}
        THEN [ok |-> TRUE, rows |-> Append(tbl, [id |-> Len(tbl) + 1] @@ data)]
        ELSE LET i == CHOOSE j \in same : TRUE
             IN  [ok |-> TRUE,
                  rows |-> [tbl EXCEPT ![i].attempt_count = tbl[i].attempt_count + 1]]

\* INSERT INTO blocked_attempts ... RETURNING *: target_device_id REFERENCES
\* devices(id), so a row naming no device is rejected (23503) and the insert
\* throws
InsertBlockedAttempt(tbl, devs, data) ==
    IF data.target_device_id \in DOMAIN devs
    THEN [ok |-> TRUE, rows |-> Append(tbl, [id |-> Len(tbl) + 1] @@ data)]
    ELSE [ok |-> FALSE, rows |-> tbl]

\* INSERT INTO security_alerts ... RETURNING *: device_id REFERENCES
\* devices(id); columns not given take their defaults (resolved_at and
\* resolved_by NULL)
InsertSecurityAlert(tbl, devs, data) ==
    IF data.device_id \subseteq DOMAIN devs
    THEN [ok |-> TRUE,
          rows |-> Append(tbl, [id |-> Len(tbl) + 1] @@ data @@
                               [device_id |-> {}, resolved_at |-> NullStr,
                                resolved_by |-> {}, metadata |-> {},
                                status |-> "active"])]
    ELSE [ok |-> FALSE, rows |-> tbl]

\* ------------------------------------------------------------------ helpers
\* db.query answering a failed statement with no rows instead of throwing
DbQuery_EmptyOnError(st, res, tbl) ==
    IF st = "up" THEN res ELSE [ok |-> TRUE, rows |-> tbl]

\* db.query / db.insert: the result of the statement, or, when the pool does
\* not answer, the error thrown once the retries are used up; tbl is what the
\* caller is left with then (no rows of a read, the table as it was of a write)
DbQuery(st, res, tbl) ==
    IF st = "up" THEN res ELSE [ok |-> FALSE, rows |-> tbl]

\* SELECT role FROM users WHERE id = $1
RoleQuery(usrs, userId) ==
    {[role |-> usrs[userId].role] : x \in {userId} \cap DOMAIN usrs}

\* hasDevicePermission granting every user that exists
HasDevicePermission_AnyUser(st, usrs, userId) ==
    LET userResult == DbQuery(st, [ok |-> TRUE, rows |-> RoleQuery(usrs, userId)], {})
    IN  IF userResult.ok THEN userResult.rows # {} ELSE FALSE

\* hasDevicePermission comparing the role with a string no role equals
HasDevicePermission_WrongRole(st, usrs, userId) ==
    LET userResult == DbQuery(st, [ok |-> TRUE, rows |-> RoleQuery(usrs, userId)], {})
    IN  IF userResult.ok THEN \E row \in userResult.rows : row.role = "Admin" ELSE FALSE

\* hasDevicePermission granting permission when the role lookup throws
HasDevicePermission_FailOpen(st, usrs, userId) ==
    LET userResult == DbQuery(st, [ok |-> TRUE, rows |-> RoleQuery(usrs, userId)], {})
    IN  IF userResult.ok THEN \E row \in userResult.rows : row.role = "admin" ELSE TRUE

\* hasDevicePermission: only the role admin grants permission; a role lookup
\* that throws is caught and answered with false
HasDevicePermission(st, usrs, userId) ==
    LET userResult == DbQuery(st, [ok |-> TRUE, rows |-> RoleQuery(usrs, userId)], {})
    IN  IF userResult.ok THEN \E row \in userResult.rows : row.role = "admin" ELSE FALSE

\* a recorder that lets the error of its insert through to the handler
Caught_Rethrow(res) == [threw |-> ~res.ok, rows |-> res.rows]

\* try { await db.insert(...) } catch (error) { log }: the recorder returns
\* normally whatever the insert did
Caught(res) == [threw |-> FALSE, rows |-> res.rows]

\* logBlockedAttempt: one insert with attempt_count 1, no read of the table
\* before it; an insert that throws is caught and logged, the table is then
\* left as it was
LogBlockedAttempt(st, tbl, devs, userId, deviceId, sourceIp, attemptType, reason) ==
    Caught(DbQuery(st,
        InsertBlockedAttempt(tbl, devs,
            [source_ip        |-> sourceIp,
             target_device_id |-> deviceId,
             attempt_type     |-> attemptType,
             attempt_count    |-> 1,
             user_id          |-> userId,
             blocked_reason   |-> reason]),
        tbl))

\* createSecurityAlert: one insert with status active; an insert that throws
\* is caught and logged
CreateSecurityAlert(st, tbl, devs, deviceId, alertType, severity, metadata) ==
    Caught(DbQuery(st,
        InsertSecurityAlert(tbl, devs,
            [device_id  |-> {deviceId},
             alert_type |-> alertType,
             severity   |-> severity,
             status     |-> "active",
             metadata   |-> ToJsonb({JsonStringify(metadata)})]),
        tbl))

\* the offline branch taken for the status offline alone
IsOnline_NotOffline(device) == device.status # "offline"

\* device.status !== 'online' decides the offline branch
IsOnline(device) == device.status = "online"

\* the connectedDevice object built from the row the lookup returned
ConnectedDevice(device) ==
    [id |-> device.id, firmwareVersion |-> device.firmware_version,
     status |-> device.status]

\* a session that keeps the earlier connection beside the new one
SessionSet_Add(s, userId, connectedDevice) ==
    [s EXCEPT ![userId] = s[userId] \cup {connectedDevice}]

\* req.session.connectedDevice = connectedDevice
SessionSet(s, userId, connectedDevice) ==
    [s EXCEPT ![userId] = {connectedDevice}]

\* a disconnect that forgets to clear the connection
SessionClear_Noop(s, userId) == s

\* delete req.session.connectedDevice
SessionClear(s, userId) ==
    [s EXCEPT ![userId] = {}]

\* requireAuthOrDeny: the handler runs only for a session that holds a user
RequireAuthOrDeny(authd, u) == u \in authd

\* the catch of the connect handler: 500 with a generic message
StorageFailure(q) == Respond(q, 500, "StorageFailure", {})

\* ---------------------------------------------------- POST /connect/:deviceId
\* the middleware and the entry of the handler up to the device lookup it
\* awaits
ConnectStart(r, u, raw, ip) ==
    /\ req[r].pc = "idle"
    /\ Len(blocked_attempts) + Cardinality(InFlight) < MaxBlocked
    /\ Len(security_alerts) + Cardinality(InFlight) < MaxAlerts
    /\ LET p == ParseInt(raw)      \* deviceId is p.val, meaningless when p.nan
           q == [op |-> "connect", user |-> u, raw |-> raw, deviceId |-> p.val,
                 ip |-> ip, log |-> <<"validate">>]
       IN  req' = [req EXCEPT ![r] =
                IF ~RequireAuthOrDeny(auth, u)
                THEN Respond(q, 302, "AccessDenied", {})
                ELSE IF IsNaN(p)
                THEN Respond(q, 400, "InvalidInput", {})
                ELSE q @@ [pc |-> "lookup"]]
    /\ UNCHANGED dbVars
    /\ UNCHANGED <<users, devices, blocked_attempts, security_alerts, session, storage, auth,
                   devices_id_seq>>

\* the device lookup and the branch on its result; a lookup that throws ends
\* in the catch of the handler
ConnectLookup(r) ==
    /\ req[r].op = "connect" /\ req[r].pc = "lookup"
    /\ LET deviceResult == DbQuery(storage,
                               [ok |-> TRUE,
                                rows |-> DeviceQuery(devices, req[r].deviceId)], {})
       IN  req' = [req EXCEPT ![r] =
                IF ~deviceResult.ok
                THEN StorageFailure(req[r])
                ELSE IF deviceResult.rows = {}
                THEN [Logged(req[r], <<"decide">>) EXCEPT !.pc = "log_invalid"]
                ELSE LET device == CHOOSE d \in deviceResult.rows : TRUE
                     IN  [pc |-> IF ~IsOnline(device)
                                 THEN "log_offline" ELSE "permission",
                          device |-> device] @@ Logged(req[r], <<"decide">>)]
    /\ UNCHANGED dbVars
    /\ UNCHANGED <<users, devices, blocked_attempts, security_alerts, session, storage, auth,
                   devices_id_seq>>

\* device not found: the audit insert, then 404
ConnectLogInvalid(r) ==
    /\ req[r].op = "connect" /\ req[r].pc = "log_invalid"
    /\ LET rec == LogBlockedAttempt(storage, blocked_attempts, devices, req[r].user,
                      req[r].deviceId, req[r].ip, "invalid_device", "device_not_found")
       IN  /\ blocked_attempts' = rec.rows
           /\ req' = [req EXCEPT ![r] =
                  IF rec.threw THEN StorageFailure(Logged(req[r], <<"record">>))
                  ELSE Respond(Logged(req[r], <<"record">>), 404, "NotFound", {})]
    /\ UNCHANGED dbVars
    /\ UNCHANGED <<users, devices, security_alerts, session, storage, auth,
                   devices_id_seq>>

\* device not online: the audit insert, then 400
ConnectLogOffline(r) ==
    /\ req[r].op = "connect" /\ req[r].pc = "log_offline"
    /\ LET rec == LogBlockedAttempt(storage, blocked_attempts, devices, req[r].user,
                      req[r].deviceId, req[r].ip, "offline_device", "device_offline")
       IN  /\ blocked_attempts' = rec.rows
           /\ req' = [req EXCEPT ![r] =
                  IF rec.threw THEN StorageFailure(Logged(req[r], <<"record">>))
                  ELSE Respond(Logged(req[r], <<"record">>), 400, "DeviceOffline", {})]
    /\ UNCHANGED dbVars
    /\ UNCHANGED <<users, devices, security_alerts, session, storage, auth,
                   devices_id_seq>>

\* the role lookup of hasDevicePermission and the branch on its result; a
\* permitted user is connected at once
ConnectPermission(r) ==
    /\ req[r].op = "connect" /\ req[r].pc = "permission"
    /\ LET hasPermission == HasDevicePermission(storage, users, req[r].user)
       IN  IF hasPermission
           THEN /\ session' = SessionSet(session, req[r].user,
                                         ConnectedDevice(req[r].device))
                /\ req' = [req EXCEPT ![r] =
                       Respond(Logged(req[r], <<"decide", "session">>), 200,
                               "Allowed", {ConnectedDevice(req[r].device)})]
           ELSE /\ req' = [req EXCEPT ![r] =
                       [Logged(req[r], <<"decide">>) EXCEPT !.pc =
                           IF req[r].device.has_security_enabled
                           THEN "log_unauthorized" ELSE "alert"]]
                /\ UNCHANGED session
    /\ UNCHANGED dbVars
    /\ UNCHANGED <<users, devices, blocked_attempts, security_alerts, storage, auth,
                   devices_id_seq>>

\* a denial that also drops the connection the session holds
ConnectLogUnauthorized_DropsConnection(r) ==
    /\ req[r].op = "connect" /\ req[r].pc = "log_unauthorized"
    /\ LET rec == LogBlockedAttempt(storage, blocked_attempts, devices, req[r].user,
                      req[r].deviceId, req[r].ip, "unauthorized_access",
                      "no_permission_secured_device")
       IN  /\ blocked_attempts' = rec.rows
           /\ session' = SessionClear(session, req[r].user)
           /\ req' = [req EXCEPT ![r] =
                  Respond(Logged(req[r], <<"record">>), 403, "Forbidden", {})]
    /\ UNCHANGED dbVars
    /\ UNCHANGED <<users, devices, security_alerts, storage, auth, devices_id_seq>>

\* no permission, secured device: the audit insert, then 403
ConnectLogUnauthorized(r) ==
    /\ req[r].op = "connect" /\ req[r].pc = "log_unauthorized"
    /\ LET rec == LogBlockedAttempt(storage, blocked_attempts, devices, req[r].user,
                      req[r].deviceId, req[r].ip, "unauthorized_access",
                      "no_permission_secured_device")
       IN  /\ blocked_attempts' = rec.rows
           /\ req' = [req EXCEPT ![r] =
                  IF rec.threw THEN StorageFailure(Logged(req[r], <<"record">>))
                  ELSE Respond(Logged(req[r], <<"record">>), 403, "Forbidden", {})]
    /\ UNCHANGED dbVars
    /\ UNCHANGED <<users, devices, security_alerts, session, storage, auth,
                   devices_id_seq>>

\* a handler that stores the connection and responds before it awaits the
\* alert insert
ConnectAlert_RecordLast(r) ==
    /\ req[r].op = "connect" /\ req[r].pc = "alert"
    /\ LET rec == CreateSecurityAlert(storage, security_alerts, devices,
                      req[r].deviceId, "Unauthorized Device Access", "medium",
                      {"user_id", "device_name", "access_granted",
                       "security_enabled", "reason"})
       IN  /\ security_alerts' = rec.rows
           /\ session' = SessionSet(session, req[r].user,
                                    ConnectedDevice(req[r].device))
           /\ req' = [req EXCEPT ![r] =
                  Logged(Respond(Logged(req[r], <<"session">>), 200, "Allowed",
                                 {ConnectedDevice(req[r].device)}), <<"record">>)]
    /\ UNCHANGED dbVars
    /\ UNCHANGED <<users, devices, blocked_attempts, storage, auth,
                   devices_id_seq>>

\* no permission, unsecured device: the alert insert, then the connection
ConnectAlert(r) ==
    /\ req[r].op = "connect" /\ req[r].pc = "alert"
    /\ LET rec == CreateSecurityAlert(storage, security_alerts, devices,
                      req[r].deviceId, "Unauthorized Device Access", "medium",
                      {"user_id", "device_name", "access_granted",
                       "security_enabled", "reason"})
       IN  /\ security_alerts' = rec.rows
           /\ IF rec.threw
              THEN /\ req' = [req EXCEPT ![r] =
                          StorageFailure(Logged(req[r], <<"record">>))]
                   /\ UNCHANGED session
              ELSE /\ session' = SessionSet(session, req[r].user,
                                            ConnectedDevice(req[r].device))
                   /\ req' = [req EXCEPT ![r] =
                          Respond(Logged(req[r], <<"record", "session">>), 200,
                                  "Allowed", {ConnectedDevice(req[r].device)})]
    /\ UNCHANGED dbVars
    /\ UNCHANGED <<users, devices, blocked_attempts, storage, auth,
                   devices_id_seq>>

\* ------------------------------------------------- POST /disconnect/:deviceId
\* the handler awaits nothing: with its middleware it is one segment
Disconnect(r, u, raw) ==
    /\ req[r].pc = "idle"
    /\ LET p == ParseInt(raw)
           q == [op |-> "disconnect", user |-> u, raw |-> raw, deviceId |-> p.val,
                 log |-> <<"validate">>]
       IN  IF ~RequireAuthOrDeny(auth, u)
           THEN /\ req' = [req EXCEPT ![r] = Respond(q, 302, "AccessDenied", {})]
                /\ UNCHANGED session
           ELSE IF IsNaN(p)
           THEN /\ req' = [req EXCEPT ![r] = Respond(q, 400, "InvalidInput", {})]
                /\ UNCHANGED session
           ELSE IF session[u] = {} \/ \A c \in session[u] : c.id # p.val
           THEN /\ req' = [req EXCEPT ![r] = Respond(q, 400, "NotConnected", {})]
                /\ UNCHANGED session
           ELSE /\ session' = SessionClear(session, u)
                /\ req' = [req EXCEPT ![r] =
                       Respond(Logged(q, <<"session">>), 200, "Disconnected", {})]
    /\ UNCHANGED dbVars
    /\ UNCHANGED <<users, devices, blocked_attempts, security_alerts, storage, auth,
                   devices_id_seq>>

\* ------------------------------------------------------------ table reads
\* SELECT * FROM <table> WHERE id = $1 on a table kept in insertion order
FindById(tbl, id) == {tbl[i] : i \in {j \in 1..Len(tbl) : tbl[j].id = id}}

\* SELECT * FROM users WHERE id = $1
FindUserById(usrs, id) == {[id |-> id, role |-> usrs[id].role] : x \in {id} \cap DOMAIN usrs}

\* UPDATE security_alerts SET <data> WHERE id = $1 RETURNING *: every column
\* named in data is overwritten, whatever the row holds
UpdateSecurityAlert(tbl, data, id) ==
    [i \in 1..Len(tbl) |-> IF tbl[i].id = id THEN data @@ tbl[i] ELSE tbl[i]]

\* ------------------------------------------------------------ POST /api/alerts
\* validation of the body up to the first await
CreateAlertStart(r, body) ==
    /\ req[r].pc = "idle"
    /\ Len(security_alerts) + Cardinality(InFlight) < MaxAlerts
    /\ LET q == [op |-> "createAlert", body |-> body]
       IN  req' = [req EXCEPT ![r] =
                IF body.alert_type = "" \/ body.severity = ""
                THEN [pc |-> "done", status |-> 400, kind |-> "MissingField"] @@ q
                ELSE IF body.severity \notin {"low", "medium", "high", "critical"}
                THEN [pc |-> "done", status |-> 400, kind |-> "InvalidSeverity"] @@ q
                ELSE IF body.device_id # {}
                THEN [pc |-> "find_device"] @@ q
                ELSE [pc |-> "insert"] @@ q]
    /\ UNCHANGED dbVars
    /\ UNCHANGED <<users, devices, blocked_attempts, security_alerts, session, storage, auth,
                   devices_id_seq>>

\* db.findById('devices', device_id)
CreateAlertFindDevice(r) ==
    /\ req[r].op = "createAlert" /\ req[r].pc = "find_device"
    /\ req' = [req EXCEPT ![r] =
            IF req[r].body.device_id \cap DOMAIN devices = {}
            THEN [pc |-> "done", status |-> 400, kind |-> "DeviceNotFound"] @@ req[r]
            ELSE [req[r] EXCEPT !.pc = "insert"]]
    /\ UNCHANGED dbVars
    /\ UNCHANGED <<users, devices, blocked_attempts, security_alerts, session, storage, auth,
                   devices_id_seq>>

\* the alertData object: status is always active, whatever the body holds
AlertData(body) ==
    [alert_type |-> body.alert_type,
     severity   |-> body.severity,
     status     |-> "active",
     device_id  |-> body.device_id,
     metadata   |-> ToJsonb({JsonStringify(m) : m \in body.metadata})]

\* db.insert('security_alerts', alertData); an insert that throws ends in 500
CreateAlertInsert(r) ==
    /\ req[r].op = "createAlert" /\ req[r].pc = "insert"
    /\ LET res == InsertSecurityAlert(security_alerts, devices, AlertData(req[r].body))
       IN  /\ security_alerts' = res.rows
           /\ req' = [req EXCEPT ![r] =
                  IF res.ok
                  THEN [pc |-> "done", status |-> 201, kind |-> "Created"] @@ req[r]
                  ELSE [pc |-> "done", status |-> 500, kind |-> "StorageFailure"] @@ req[r]]
    /\ UNCHANGED dbVars
    /\ UNCHANGED <<users, devices, blocked_attempts, session, storage, auth,
                   devices_id_seq>>

\* ------------------------------------------------- PUT /api/alerts/:id/resolve
\* updateData without resolved_at
UpdateData_NoResolvedAt(alert, body) ==
    LET base == [status |-> "resolved"]
        by   == IF body.resolved_by # {}
                THEN [resolved_by |-> body.resolved_by] @@ base ELSE base
    IN  [ok |-> body.resolution_note = "" \/ alert.metadata = {}, data |-> by]

\* the updateData object, or the SyntaxError of JSON.parse(alert.metadata):
\* alert.metadata is the object the driver returned, not a JSON text
UpdateData(alert, body) ==
    LET base == [status |-> "resolved", resolved_at |-> "now"]
        by   == IF body.resolved_by # {}
                THEN [resolved_by |-> body.resolved_by] @@ base ELSE base
        parsed == IF alert.metadata # {}
                  THEN JsonParse(StringOf(CHOOSE m \in alert.metadata : TRUE))
                  ELSE [ok |-> TRUE, obj |-> {}]
    IN  IF body.resolution_note = ""
        THEN [ok |-> TRUE, data |-> by]
        ELSE IF parsed.ok
        THEN [ok |-> TRUE,
              data |-> [metadata |->
                           ToJsonb({JsonStringify(parsed.obj \cup {"resolution_note"})})]
                       @@ by]
        ELSE [ok |-> FALSE, data |-> by]

\* after the validations: build updateData and go on to the update, or 500
ResolvePrepare(q, alert) ==
    LET u == UpdateData(alert, q.body)
    IN  IF u.ok
        THEN [pc |-> "update", data |-> u.data] @@ q
        ELSE [pc |-> "done", status |-> 500, kind |-> "ResolveError"] @@ q

ResolveStart(r, raw, body) ==
    /\ req[r].pc = "idle"
    /\ LET p == ParseInt(raw)
           q == [op |-> "resolve", raw |-> raw, alertId |-> p.val, body |-> body]
       IN  req' = [req EXCEPT ![r] =
                IF IsNaN(p)
                THEN [pc |-> "done", status |-> 400, kind |-> "InvalidInput"] @@ q
                ELSE [pc |-> "find_alert"] @@ q]
    /\ UNCHANGED dbVars
    /\ UNCHANGED <<users, devices, blocked_attempts, security_alerts, session, storage, auth,
                   devices_id_seq>>

\* db.findById('security_alerts', alertId) and the status check
ResolveFindAlert(r) ==
    /\ req[r].op = "resolve" /\ req[r].pc = "find_alert"
    /\ LET found == FindById(security_alerts, req[r].alertId)
       IN  req' = [req EXCEPT ![r] =
                IF found = {}
                THEN [pc |-> "done", status |-> 404, kind |-> "NotFound"] @@ req[r]
                ELSE LET alert == CHOOSE a \in found : TRUE
                     IN  IF alert.status # "active"
                         THEN [pc |-> "done", status |-> 400, kind |-> "NotActive"] @@ req[r]
                         ELSE IF req[r].body.resolved_by # {}
                         THEN [pc |-> "find_user", alert |-> alert] @@ req[r]
                         ELSE ResolvePrepare(req[r], alert)]
    /\ UNCHANGED dbVars
    /\ UNCHANGED <<users, devices, blocked_attempts, security_alerts, session, storage, auth,
                   devices_id_seq>>

\* db.findById('users', resolved_by)
ResolveFindUser(r) ==
    /\ req[r].op = "resolve" /\ req[r].pc = "find_user"
    /\ LET q == [x \in DOMAIN req[r] \ {"alert"} |-> req[r][x]]
       IN  req' = [req EXCEPT ![r] =
                IF \A id \in req[r].body.resolved_by : FindUserById(users, id) = {}
                THEN [pc |-> "done", status |-> 400, kind |-> "UserNotFound"] @@ q
                ELSE ResolvePrepare(q, req[r].alert)]
    /\ UNCHANGED dbVars
    /\ UNCHANGED <<users, devices, blocked_attempts, security_alerts, session, storage, auth,
                   devices_id_seq>>

\* db.update('security_alerts', updateData, { id: alertId })
ResolveUpdate(r) ==
    /\ req[r].op = "resolve" /\ req[r].pc = "update"
    /\ LET q == [x \in DOMAIN req[r] \ {"data"} |-> req[r][x]]
       IN  /\ security_alerts' =
                  UpdateSecurityAlert(security_alerts, req[r].data, req[r].alertId)
           /\ req' = [req EXCEPT ![r] =
                  IF FindById(security_alerts, req[r].alertId) = {}
                  THEN [pc |-> "done", status |-> 404, kind |-> "NotFound"] @@ q
                  ELSE [pc |-> "done", status |-> 200, kind |-> "Resolved"] @@ q]
    /\ UNCHANGED dbVars
    /\ UNCHANGED <<users, devices, blocked_attempts, session, storage, auth,
                   devices_id_seq>>

\* ------------------------------------------------ createSampleSecurityAlerts
SampleAlerts == 2        \* how many of the sample rows the model inserts

RECURSIVE Ascending(_)
Ascending(S) ==
    IF S = {} THEN <<>>
    ELSE LET m == CHOOSE x \in S : \A y \in S : x <= y
         IN  <<m>> \o Ascending(S \ {m})

\* the severities of the five sample rows, in the order they are inserted
SampleSeverity == <<"high", "medium", "medium", "critical", "high">>

\* the sample rows: all active, the i-th on the i-th device if there is one
SampleAlertRow(deviceIds, i) ==
    [device_id  |-> IF i <= Len(deviceIds) THEN {deviceIds[i]} ELSE {},
     alert_type |-> "Sample",
     severity   |-> SampleSeverity[i],
     status     |-> "active",
     metadata   |-> ToJsonb({JsonStringify({"sample"})})]

RECURSIVE InsertSamples(_, _, _, _)
InsertSamples(tbl, devs, deviceIds, i) ==
    IF i > SampleAlerts THEN tbl
    ELSE InsertSamples(InsertSecurityAlert(tbl, devs, SampleAlertRow(deviceIds, i)).rows,
                       devs, deviceIds, i + 1)

\* skipped when the table holds a row already
CreateSampleSecurityAlerts ==
    /\ Len(security_alerts) = 0
    /\ InFlight = {}
    /\ security_alerts' =
           InsertSamples(security_alerts, devices, Ascending(DOMAIN devices), 1)
    /\ UNCHANGED dbVars
    /\ UNCHANGED <<users, devices, blocked_attempts, session, req, storage, auth,
                   devices_id_seq>>

\* ------------------------------------------------------------ /api/devices
MaxDeviceId == 4         \* the last id the model lets the sequence give

\* requireAuthAPI: next() only for a session that holds a user; su is the user
\* of the session, none or one
RequireAuthAPI(su) == su # {}

\* db.findById('devices', id)
FindDeviceById(devs, id) ==
    {[id |-> id] @@ devs[id] : x \in {id} \cap DOMAIN devs}

\* a deviceData object that takes the status from the body
DeviceData_StatusFromBody(body) ==
    [status |-> body.status,
     firmware_version |-> IF body.firmware_version # "" THEN body.firmware_version
                          ELSE NullStr]

\* the deviceData object: status is always offline, an empty firmware_version
\* is left out and the column stays NULL
DeviceData(body) ==
    [status |-> "offline",
     firmware_version |-> IF body.firmware_version # "" THEN body.firmware_version
                          ELSE NullStr]

\* INSERT INTO devices ... RETURNING *: the id comes from the sequence
InsertDevice(devs, seq, data) ==
    [ok |-> TRUE, rows |-> ((seq + 1) :> data) @@ devs, seq |-> seq + 1]

\* the updateData object: the columns the body names
DeviceUpdateData(body) ==
    [f \in {g \in {"status", "firmware_version"} : body[g] # {}} |->
        CHOOSE v \in body[f] : TRUE]

\* UPDATE devices SET <data> WHERE id = $1 RETURNING *
UpdateDevice(devs, data, id) ==
    IF id \in DOMAIN devs
    THEN [ok |-> TRUE, rows |-> [devs EXCEPT ![id] = data @@ devs[id]], count |-> 1]
    ELSE [ok |-> TRUE, rows |-> devs, count |-> 0]

\* the rows of the two audit tables that reference device id
References(blocked, alerts, id) ==
    [blocked |-> {i \in 1..Len(blocked) : blocked[i].target_device_id = id},
     alerts  |-> {i \in 1..Len(alerts) : alerts[i].device_id = {id}}]

\* the subsequence of tbl without the rows at the positions in drop
RECURSIVE Without(_, _, _)
Without(tbl, drop, i) ==
    IF i > Len(tbl) THEN <<>>
    ELSE (IF i \in drop THEN <<>> ELSE <<tbl[i]>>) \o Without(tbl, drop, i + 1)

\* a delete that takes the rows referencing the device with it
DeleteDevice_Cascade(devs, blocked, alerts, id) ==
    LET refs == References(blocked, alerts, id)
    IN  [ok |-> TRUE,
         devices |-> [d \in DOMAIN devs \ {id} |-> devs[d]],
         blocked_attempts |-> Without(blocked, refs.blocked, 1),
         security_alerts |-> Without(alerts, refs.alerts, 1),
         count |-> Cardinality({id} \cap DOMAIN devs)]

\* DELETE FROM devices WHERE id = $1: the foreign keys of blocked_attempts and
\* security_alerts name no ON DELETE action, so the delete of a device that a
\* row references is refused (23503) and throws
DeleteDevice(devs, blocked, alerts, id) ==
    LET refs == References(blocked, alerts, id)
    IN  IF refs.blocked # {} \/ refs.alerts # {}
        THEN [ok |-> FALSE, devices |-> devs, blocked_attempts |-> blocked,
              security_alerts |-> alerts, count |-> 0]
        ELSE [ok |-> TRUE,
              devices |-> [d \in DOMAIN devs \ {id} |-> devs[d]],
              blocked_attempts |-> blocked, security_alerts |-> alerts,
              count |-> Cardinality({id} \cap DOMAIN devs)]

\* the response of a devices handler
ApiDone(q, status, kind) == [pc |-> "done", status |-> status, kind |-> kind] @@ q

\* the entry of a devices handler with an :id parameter, up to its first await
ApiStart(r, op, su, raw, body, next) ==
    /\ req[r].pc = "idle"
    /\ LET p == ParseInt(raw)
           q == [op |-> op, sessionUser |-> su, raw |-> raw, deviceId |-> p.val,
                 body |-> body]
       IN  req' = [req EXCEPT ![r] =
                IF IsNaN(p) THEN ApiDone(q, 400, "InvalidInput")
                ELSE [pc |-> next] @@ q]
    /\ UNCHANGED dbVars
    /\ UNCHANGED <<users, devices, blocked_attempts, security_alerts, session, storage,
                   auth, devices_id_seq>>

\* GET /api/devices: the only route of the router behind requireAuthAPI
DeviceListStart(r, su) ==
    /\ req[r].pc = "idle"
    /\ LET q == [op |-> "listDevices", sessionUser |-> su]
       IN  req' = [req EXCEPT ![r] =
                IF ~RequireAuthAPI(su) THEN ApiDone(q, 401, "AuthRequired")
                ELSE [pc |-> "list"] @@ q]
    /\ UNCHANGED dbVars
    /\ UNCHANGED <<users, devices, blocked_attempts, security_alerts, session, storage,
                   auth, devices_id_seq>>

\* db.findWhere('devices', ...)
DeviceListFind(r) ==
    /\ req[r].op = "listDevices" /\ req[r].pc = "list"
    /\ req' = [req EXCEPT ![r] =
            IF DbQuery(storage, [ok |-> TRUE, rows |-> {}], {}).ok
            THEN ApiDone(req[r], 200, "Listed")
            ELSE ApiDone(req[r], 500, "StorageFailure")]
    /\ UNCHANGED dbVars
    /\ UNCHANGED <<users, devices, blocked_attempts, security_alerts, session, storage,
                   auth, devices_id_seq>>

\* POST /api/devices: validation of the body (a body without mac_address)
DeviceCreateStart(r, su, body) ==
    /\ req[r].pc = "idle"
    /\ devices_id_seq < MaxDeviceId
    /\ LET q == [op |-> "createDevice", sessionUser |-> su, body |-> body]
       IN  req' = [req EXCEPT ![r] =
                IF body.name = "" \/ body.device_type = ""
                THEN ApiDone(q, 400, "MissingField")
                ELSE [pc |-> "insert"] @@ q]
    /\ UNCHANGED dbVars
    /\ UNCHANGED <<users, devices, blocked_attempts, security_alerts, session, storage,
                   auth, devices_id_seq>>

\* db.insert('devices', deviceData)
DeviceCreateInsert(r) ==
    /\ req[r].op = "createDevice" /\ req[r].pc = "insert"
    /\ LET res == DbQuery(storage,
                      InsertDevice(devices, devices_id_seq, DeviceData(req[r].body)),
                      devices)
       IN  IF res.ok
           THEN /\ devices' = res.rows
                /\ devices_id_seq' = res.seq
                /\ req' = [req EXCEPT ![r] =
                       [deviceId |-> res.seq] @@ ApiDone(req[r], 201, "Created")]
           ELSE /\ req' = [req EXCEPT ![r] = ApiDone(req[r], 500, "StorageFailure")]
                /\ UNCHANGED <<devices, devices_id_seq>>
    /\ UNCHANGED dbVars
    /\ UNCHANGED <<users, blocked_attempts, security_alerts, session, storage, auth>>

\* PUT /api/devices/:id
DeviceUpdateStart(r, su, raw, body) == ApiStart(r, "updateDevice", su, raw, body, "find")

\* db.findById('devices', deviceId) of the update and of the delete
DeviceFind(r, op, next) ==
    /\ req[r].op = op /\ req[r].pc = "find"
    /\ LET res == DbQuery(storage,
                      [ok |-> TRUE, rows |-> FindDeviceById(devices, req[r].deviceId)],
                      {})
       IN  req' = [req EXCEPT ![r] =
                IF ~res.ok THEN ApiDone(req[r], 500, "StorageFailure")
                ELSE IF res.rows = {} THEN ApiDone(req[r], 404, "NotFound")
                ELSE [req[r] EXCEPT !.pc = next]]
    /\ UNCHANGED dbVars
    /\ UNCHANGED <<users, devices, blocked_attempts, security_alerts, session, storage,
                   auth, devices_id_seq>>

DeviceUpdateFind(r) == DeviceFind(r, "updateDevice", "update")

\* db.update('devices', data, { id: deviceId }) and the response on its result
DeviceWrite(r, op, data, kind) ==
    /\ req[r].op = op /\ req[r].pc = "update"
    /\ LET res == DbQuery(storage, UpdateDevice(devices, data, req[r].deviceId),
                          devices)
       IN  /\ devices' = res.rows
           /\ req' = [req EXCEPT ![r] =
                  IF ~res.ok THEN ApiDone(req[r], 500, "StorageFailure")
                  ELSE IF res.count = 0 THEN ApiDone(req[r], 404, "NotFound")
                  ELSE ApiDone(req[r], 200, kind)]
    /\ UNCHANGED dbVars
    /\ UNCHANGED <<users, blocked_attempts, security_alerts, session, storage, auth,
                   devices_id_seq>>

DeviceUpdateWrite(r) ==
    DeviceWrite(r, "updateDevice", DeviceUpdateData(req[r].body), "Updated")

\* DELETE /api/devices/:id
DeviceDeleteStart(r, su, raw) == ApiStart(r, "deleteDevice", su, raw, {}, "find")

DeviceDeleteFind(r) == DeviceFind(r, "deleteDevice", "delete")

\* db.delete('devices', { id: deviceId }); a delete that throws ends in 500
DeviceDeleteRemove(r) ==
    /\ req[r].op = "deleteDevice" /\ req[r].pc = "delete"
    /\ LET del == DeleteDevice(devices, blocked_attempts, security_alerts,
                               req[r].deviceId)
           res == IF storage = "up" THEN del
                  ELSE [del EXCEPT !.ok = FALSE, !.devices = devices,
                                   !.blocked_attempts = blocked_attempts,
                                   !.security_alerts = security_alerts]
       IN  /\ devices' = res.devices
           /\ blocked_attempts' = res.blocked_attempts
           /\ security_alerts' = res.security_alerts
           /\ req' = [req EXCEPT ![r] =
                  IF ~res.ok THEN ApiDone(req[r], 500, "DeleteFailed")
                  ELSE IF res.count = 0 THEN ApiDone(req[r], 404, "NotFound")
                  ELSE ApiDone(req[r], 200, "Deleted")]
    /\ UNCHANGED dbVars
    /\ UNCHANGED <<users, session, storage, auth, devices_id_seq>>

\* POST /api/devices/:id/heartbeat: no findById before the update
HeartbeatStart(r, su, raw) == ApiStart(r, "heartbeat", su, raw, {}, "update")

HeartbeatWrite(r) ==
    DeviceWrite(r, "heartbeat", [status |-> "online"], "HeartbeatRecorded")

\* the segments of the devices requests of context r
DevicesApi(r, sus, rawIds, createBodies, updateBodies) ==
    \/ \E su \in sus : DeviceListStart(r, su)
    \/ DeviceListFind(r)
    \/ \E su \in sus, body \in createBodies : DeviceCreateStart(r, su, body)
    \/ DeviceCreateInsert(r)
    \/ \E su \in sus, raw \in rawIds, body \in updateBodies :
           DeviceUpdateStart(r, su, raw, body)
    \/ DeviceUpdateFind(r)
    \/ DeviceUpdateWrite(r)
    \/ \E su \in sus, raw \in rawIds : DeviceDeleteStart(r, su, raw)
    \/ DeviceDeleteFind(r)
    \/ DeviceDeleteRemove(r)
    \/ \E su \in sus, raw \in rawIds : HeartbeatStart(r, su, raw)
    \/ HeartbeatWrite(r)
    \/ EndRequest(r)

\* ------------------------------------------------------------ /auth and /users
\* SELECT ... FROM users WHERE email = $1; a user is named by its id here
UserByEmail(usrs, u) == {[id |-> u] @@ usrs[u] : x \in {u} \cap DOMAIN usrs}

\* POST /auth/login: the check of the body; creds is "missing", "wrong" or
\* "right" for the password sent with the email of user u
LoginStart(r, u, creds) ==
    /\ req[r].pc = "idle"
    /\ LET q == [op |-> "login", user |-> u, creds |-> creds]
       IN  req' = [req EXCEPT ![r] =
                IF creds = "missing" THEN ApiDone(q, 302, "AccessDenied")
                ELSE [pc |-> "find"] @@ q]
    /\ UNCHANGED dbVars
    /\ UNCHANGED <<users, devices, blocked_attempts, security_alerts, session, storage,
                   auth, devices_id_seq>>

\* the user lookup, the is_active check and the password check
LoginFind(r) ==
    /\ req[r].op = "login" /\ req[r].pc = "find"
    /\ LET result == DbQuery(storage,
                         [ok |-> TRUE, rows |-> UserByEmail(users, req[r].user)], {})
       IN  req' = [req EXCEPT ![r] =
                IF ~result.ok THEN ApiDone(req[r], 200, "LoginError")
                ELSE IF result.rows = {} THEN ApiDone(req[r], 302, "AccessDenied")
                ELSE IF \E row \in result.rows : ~row.is_active
                THEN ApiDone(req[r], 302, "AccessDenied")
                ELSE IF req[r].creds # "right" THEN ApiDone(req[r], 302, "AccessDenied")
                ELSE [req[r] EXCEPT !.pc = "store"]]
    /\ UNCHANGED dbVars
    /\ UNCHANGED <<users, devices, blocked_attempts, security_alerts, session, storage,
                   auth, devices_id_seq>>

\* UPDATE users SET last_login, then req.session.user = { id, name, email, role }
LoginStore(r) ==
    /\ req[r].op = "login" /\ req[r].pc = "store"
    /\ IF DbQuery(storage, [ok |-> TRUE, rows |-> {}], {}).ok
       THEN /\ auth' = auth \cup {req[r].user}
            /\ req' = [req EXCEPT ![r] = ApiDone(req[r], 302, "LoggedIn")]
       ELSE /\ req' = [req EXCEPT ![r] = ApiDone(req[r], 200, "LoginError")]
            /\ UNCHANGED auth
    /\ UNCHANGED dbVars
    /\ UNCHANGED <<users, devices, blocked_attempts, security_alerts, session, storage,
                   devices_id_seq>>

\* GET /auth/logout: req.session.destroy() drops the user and the connection
Logout(r, u) ==
    /\ req[r].pc = "idle"
    /\ auth' = auth \ {u}
    /\ session' = [session EXCEPT ![u] = {}]
    /\ req' = [req EXCEPT ![r] =
            ApiDone([op |-> "logout", user |-> u], 302, "LoggedOut")]
    /\ UNCHANGED dbVars
    /\ UNCHANGED <<users, devices, blocked_attempts, security_alerts, storage,
                   devices_id_seq>>

\* the updateData object of PUT /users/:id: the columns the body names
UserUpdateData(body) ==
    [f \in {g \in {"role", "is_active"} : body[g] # {}} |->
        CHOOSE v \in body[f] : TRUE]

\* UPDATE users SET <data> WHERE id = $1 RETURNING *
UpdateUser(usrs, data, id) ==
    IF id \in DOMAIN usrs
    THEN [ok |-> TRUE, rows |-> [usrs EXCEPT ![id] = data @@ usrs[id]], count |-> 1]
    ELSE [ok |-> TRUE, rows |-> usrs, count |-> 0]

\* PUT /users/:id: registered without middleware, so the handler runs for the
\* session user su (none, or a logged-in user) without reading it
UserUpdateStart(r, su, raw, body) ==
    /\ req[r].pc = "idle"
    /\ LET p == ParseInt(raw)
           q == [op |-> "updateUser", raw |-> raw, userId |-> p.val, body |-> body,
                 sessionUser |-> su]
       IN  req' = [req EXCEPT ![r] =
                IF IsNaN(p) THEN ApiDone(q, 400, "InvalidInput")
                ELSE [pc |-> "find"] @@ q]
    /\ UNCHANGED dbVars
    /\ UNCHANGED <<users, devices, blocked_attempts, security_alerts, session, storage,
                   auth, devices_id_seq>>

\* db.findById('users', userId)
UserUpdateFind(r) ==
    /\ req[r].op = "updateUser" /\ req[r].pc = "find"
    /\ LET res == DbQuery(storage,
                      [ok |-> TRUE, rows |-> FindUserById(users, req[r].userId)], {})
       IN  req' = [req EXCEPT ![r] =
                IF ~res.ok THEN ApiDone(req[r], 500, "StorageFailure")
                ELSE IF res.rows = {} THEN ApiDone(req[r], 404, "NotFound")
                ELSE [req[r] EXCEPT !.pc = "update"]]
    /\ UNCHANGED dbVars
    /\ UNCHANGED <<users, devices, blocked_attempts, security_alerts, session, storage,
                   auth, devices_id_seq>>

\* db.update('users', updateData, { id: userId }): the session of the user is
\* not touched
UserUpdateWrite(r) ==
    /\ req[r].op = "updateUser" /\ req[r].pc = "update"
    /\ LET res == DbQuery(storage,
                      UpdateUser(users, UserUpdateData(req[r].body), req[r].userId),
                      users)
       IN  /\ users' = res.rows
           /\ req' = [req EXCEPT ![r] =
                  IF ~res.ok THEN ApiDone(req[r], 500, "StorageFailure")
                  ELSE IF res.count = 0 THEN ApiDone(req[r], 404, "NotFound")
                  ELSE ApiDone(req[r], 200, "Updated")]
    /\ UNCHANGED dbVars
    /\ UNCHANGED <<devices, blocked_attempts, security_alerts, session, storage, auth,
                   devices_id_seq>>

\* ------------------------------------------------------------------ inputs
\* the :deviceId path parameter, one character per element
RawIds ==
    { <<"1">>, <<"2">>, <<"3">>, <<"9">>, <<"0">>, <<"-", "1">>,
      <<"2", "a">>, <<"a">>, <<" ", "3">> }

\* the path parameters of the interleaved requests
ConcRawIds == { <<"1">>, <<"2">>, <<"3">>, <<"9">> }

\* the :id path parameter of the alerts API
RawAlertIds == { <<"1">>, <<"2">>, <<"9">>, <<"a">> }

\* bodies of POST /api/alerts; a status in the body is not read
CreateBodies ==
    [alert_type : {"Port Scan", ""},
     severity   : {"high", "bogus", ""},
     device_id  : {{}, {1}, {9}},
     metadata   : {{}, {{"note"}}},
     status     : {"resolved"}]

\* bodies of PUT /api/alerts/:id/resolve
ResolveBodies ==
    [resolved_by : {{}, {1}, {7}}, resolution_note : {"", "checked"}]

\* device tables the requests run against
DeviceTables ==
    { (1 :> [status |-> "online",  firmware_version |-> "1.0"]) @@
      (2 :> [status |-> "online",  firmware_version |-> ""]) @@
      (3 :> [status |-> "offline", firmware_version |-> "1.0"]),
      (1 :> [status |-> "alert",   firmware_version |-> ""]) @@
      (2 :> [status |-> "online",  firmware_version |-> NullStr]) @@
      (3 :> [status |-> "online",  firmware_version |-> "2.1"]) }

\* req.ip of the requests
SourceIps == {"10.0.0.5"}

UserTable ==
    (1 :> [role |-> "admin", is_active |-> TRUE]) @@
    (2 :> [role |-> "user", is_active |-> TRUE])

\* alert rows a database can hold before the requests start: the statuses the
\* schema names that no request writes
AlertSeeds ==
    { <<>> } \cup
    { << [id |-> 1, device_id |-> {}, alert_type |-> "Seed", severity |-> "low",
          status |-> st, resolved_at |-> NullStr, resolved_by |-> {},
          metadata |-> {}] >> : st \in {"investigating", "false_positive"} }

\* ------------------------------------------------------------------ spec
Init ==
    /\ users = UserTable
    /\ devices \in DeviceTables
    /\ blocked_attempts = <<>>
    /\ security_alerts = <<>>
    /\ session = [u \in DOMAIN UserTable |-> {}]
    /\ req = [r \in Reqs |-> Idle]
    /\ storage = "up"
    /\ auth = DOMAIN UserTable
    /\ devices_id_seq = 3
    /\ DbInit

\* the segments of the device-access requests of context r
Access(r, rawIds) ==
    \/ \E u \in DOMAIN users, raw \in rawIds, ip \in SourceIps :
           ConnectStart(r, u, raw, ip)
    \/ ConnectLookup(r)
    \/ ConnectLogInvalid(r)
    \/ ConnectLogOffline(r)
    \/ ConnectPermission(r)
    \/ ConnectLogUnauthorized(r)
    \/ ConnectAlert(r)
    \/ \E u \in DOMAIN users, raw \in rawIds : Disconnect(r, u, raw)
    \/ EndRequest(r)

\* requests served one after the other
Next == Access("r1", RawIds)

Spec == Init /\ [][Next]_vars

\* requests of two contexts interleaved at their awaits
NextConc == \E r \in Reqs : Access(r, ConcRawIds)

SpecConc == Init /\ [][NextConc]_vars

\* the alerts API, the sample data and the connects that raise an alert
InitAlerts ==
    /\ users = UserTable
    /\ devices \in DeviceTables
    /\ blocked_attempts = <<>>
    /\ security_alerts \in AlertSeeds
    /\ session = [u \in DOMAIN UserTable |-> {}]
    /\ req = [r \in Reqs |-> Idle]
    /\ storage = "up"
    /\ auth = DOMAIN UserTable
    /\ devices_id_seq = 3
    /\ DbInit

NextAlerts ==
    \/ \E body \in CreateBodies : CreateAlertStart("r1", body)
    \/ CreateAlertFindDevice("r1")
    \/ CreateAlertInsert("r1")
    \/ \E raw \in RawAlertIds, body \in ResolveBodies : ResolveStart("r1", raw, body)
    \/ ResolveFindAlert("r1")
    \/ ResolveFindUser("r1")
    \/ ResolveUpdate("r1")
    \/ CreateSampleSecurityAlerts
    \/ \E ip \in SourceIps : ConnectStart("r1", 2, <<"2">>, ip)
    \/ ConnectLookup("r1")
    \/ ConnectPermission("r1")
    \/ ConnectAlert("r1")
    \/ EndRequest("r1")

SpecAlerts == InitAlerts /\ [][NextAlerts]_vars

\* ------------------------------------------------ device access and devices
\* the session users of the devices requests: none, or user 2
ApiSessionUsers == { {}, {2} }

\* the :id path parameter of the devices requests
DeviceRawIds == { <<"1">>, <<"a">> }

\* bodies of POST /api/devices; a status in the body is not read
DeviceCreateBodies ==
    [name : {"cam", ""}, device_type : {"camera"}, firmware_version : {"1.0"},
     status : {"online"}]

\* bodies of PUT /api/devices/:id
DeviceUpdateBodies ==
    { [status |-> {"offline"}, firmware_version |-> {}] }

\* the path parameters of the connects that run beside the devices requests
AccessRawIds == { <<"1">> }

\* the alerts requests that run beside them: an alert on device 1, and its
\* resolution
DeviceAlertBodies ==
    {b \in CreateBodies : /\ b.alert_type # "" /\ b.severity = "high"
                          /\ b.device_id = {1} /\ b.metadata = {}}

DeviceResolveBodies ==
    {b \in ResolveBodies : b.resolved_by = {1} /\ b.resolution_note = ""}

\* the segments of the alerts requests of context r
AlertsApi(r, createBodies, rawIds, resolveBodies) ==
    \/ \E body \in createBodies : CreateAlertStart(r, body)
    \/ CreateAlertFindDevice(r)
    \/ CreateAlertInsert(r)
    \/ \E raw \in rawIds, body \in resolveBodies : ResolveStart(r, raw, body)
    \/ ResolveFindAlert(r)
    \/ ResolveFindUser(r)
    \/ ResolveUpdate(r)

\* connect and disconnect requests of context r1 interleaved at their awaits
\* with the devices and alerts requests of context r2
NextDevices ==
    \/ Access("r1", AccessRawIds)
    \/ DevicesApi("r2", ApiSessionUsers, DeviceRawIds, DeviceCreateBodies,
                  DeviceUpdateBodies)
    \/ AlertsApi("r2", DeviceAlertBodies, { <<"1">> }, DeviceResolveBodies)

SpecDevices == Init /\ [][NextDevices]_vars

\* ------------------------------------------------- two resolves of one alert
\* bodies of the interleaved resolve requests: each names its own user
RaceResolveBodies ==
    {b \in ResolveBodies : b.resolved_by \in {{1}, {2}} /\ b.resolution_note = ""}

\* the sample alerts, and resolve requests of two contexts interleaved at
\* their awaits
NextResolve ==
    \/ CreateSampleSecurityAlerts
    \/ \E r \in Reqs :
          \/ \E raw \in { <<"1">>, <<"9">> }, body \in RaceResolveBodies :
                 ResolveStart(r, raw, body)
          \/ ResolveFindAlert(r)
          \/ ResolveFindUser(r)
          \/ ResolveUpdate(r)
          \/ EndRequest(r)

SpecResolve == InitAlerts /\ [][NextResolve]_vars

\* ------------------------------------------------------ the life of a device
\* the path parameters of the lifecycle requests: device 2 is there from the
\* start, 4 is the device the create inserts
LifeRawIds == { <<"2">>, <<"4">> }

\* bodies of POST /api/devices that ask for the status online
LifeCreateBodies ==
    [name : {"cam"}, device_type : {"camera"}, firmware_version : {"1.0"},
     status : {"online"}]

\* bodies of PUT /api/devices/:id that set the status
LifeUpdateBodies ==
    { [status |-> {st}, firmware_version |-> {}] : st \in {"online", "offline"} }

\* devices requests of user 2 and device-access requests, served one after
\* the other
NextLife ==
    \/ DevicesApi("r1", {{2}}, LifeRawIds, LifeCreateBodies, LifeUpdateBodies)
    \/ Access("r1", LifeRawIds)

SpecLife == Init /\ [][NextLife]_vars

\* ------------------------------------------------------- sessions and users
\* users tables the logins run against: user 2 active, or deactivated
UserTables ==
    { UserTable, [UserTable EXCEPT ![2].is_active = FALSE] }

\* the users a login names: 9 has no row
LoginUsers == {1, 2, 9}

\* bodies of PUT /users/:id
UserUpdateBodies ==
    { [role |-> {}, is_active |-> {FALSE}], [role |-> {}, is_active |-> {TRUE}],
      [role |-> {"admin"}, is_active |-> {}], [role |-> {"user"}, is_active |-> {}] }

\* the :id path parameter of PUT /users/:id
UserRawIds == { <<"2">>, <<"9">>, <<"a">> }

\* the path parameters of the connects of these sessions
SessionRawIds == { <<"2">>, <<"3">>, <<"9">> }

\* nobody is logged in
InitUsers ==
    /\ users \in UserTables
    /\ devices \in DeviceTables
    /\ blocked_attempts = <<>>
    /\ security_alerts = <<>>
    /\ session = [u \in DOMAIN UserTable |-> {}]
    /\ req = [r \in Reqs |-> Idle]
    /\ storage = "up"
    /\ auth = {}
    /\ devices_id_seq = 3
    /\ DbInit

\* logins, logouts, user updates and device-access requests, served one after
\* the other
NextUsers ==
    \/ \E u \in LoginUsers, creds \in {"missing", "wrong", "right"} :
           LoginStart("r1", u, creds)
    \/ LoginFind("r1")
    \/ LoginStore("r1")
    \/ \E u \in DOMAIN users : Logout("r1", u)
    \/ \E su \in {{}} \cup {{u} : u \in auth}, raw \in UserRawIds,
            body \in UserUpdateBodies :
           UserUpdateStart("r1", su, raw, body)
    \/ UserUpdateFind("r1")
    \/ UserUpdateWrite("r1")
    \/ Access("r1", SessionRawIds)

SpecUsers == InitUsers /\ [][NextUsers]_vars

\* ------------------------------------------------------------ storage faults
\* the pool stops answering: pool.connect() times out, or the statement fails,
\* on every attempt of a query
StorageDown ==
    /\ storage = "up"
    /\ storage' = "down"
    /\ UNCHANGED dbVars
    /\ UNCHANGED <<users, devices, blocked_attempts, security_alerts, session, req, auth,
                   devices_id_seq>>

\* the pool answers again
StorageUp ==
    /\ storage = "down"
    /\ storage' = "up"
    /\ UNCHANGED dbVars
    /\ UNCHANGED <<users, devices, blocked_attempts, security_alerts, session, req, auth,
                   devices_id_seq>>

\* the path parameters of the requests served under storage faults
FaultRawIds == { <<"1">>, <<"2">>, <<"3">>, <<"9">> }

\* requests served one after the other by a pool that can fail between any two
\* of their segments
NextFaults ==
    \/ Access("r1", FaultRawIds)
    \/ StorageDown
    \/ StorageUp

SpecFaults == Init /\ [][NextFaults]_vars

\* ------------------------------------------------------- database.js: query
MaxRetries == 2          \* the largest retries argument of a query call

\* the application state, which no database.js call of this part touches
appVars == <<users, devices, blocked_attempts, security_alerts, session, req, storage,
             auth, devices_id_seq>>

\* error codes query does not retry
NoRetryCodes == {"42P01", "42703", "23505", "23503"}

\* the errors client.query can reject with: the four above and a connection
\* failure
QueryErrors == NoRetryCodes \cup {"08006"}

\* the error pool.connect() rejects with after connectionTimeoutMillis
ConnectErrors == {"ETIMEDOUT"}

\* pool.connect() resolved: one more client is checked out
Acquire(p) == [p EXCEPT !.held = @ + 1]

\* client.release() through a reference to a checked-out client ("held") or
\* to a client that was released before ("released")
Release(p, ref) ==
    IF ref = "held" THEN [p EXCEPT !.held = @ - 1] ELSE [p EXCEPT !.over = @ + 1]

\* a finally block that releases the client and keeps the reference
QueryFinally_KeepsReference(c, p) ==
    IF c.client # "none"
    THEN [call |-> [c EXCEPT !.client = "released"], pool |-> Release(p, c.client)]
    ELSE [call |-> c, pool |-> p]

\* finally { if (client) { client.release(); client = null; } }
QueryFinally(c, p) ==
    IF c.client # "none"
    THEN [call |-> [c EXCEPT !.client = "none"], pool |-> Release(p, c.client)]
    ELSE [call |-> c, pool |-> p]

\* a catch block that retries whatever the error code is
QueryCatch_RetryAll(c, p, e) ==
    LET c1 == [c EXCEPT !.attempt = @ + 1, !.trail = Append(@, e)]
    IN  IF c1.attempt > c1.retries
        THEN QueryFinally([c1 EXCEPT !.pc = "thrown", !.error = e], p)
        ELSE [call |-> [c1 EXCEPT !.pc = "wait"], pool |-> p]

\* the catch block: attempt++, rethrow for the codes that are not retried and
\* after the last attempt (the finally block runs on the way out), else wait
QueryCatch(c, p, e) ==
    LET c1 == [c EXCEPT !.attempt = @ + 1, !.trail = Append(@, e)]
    IN  IF e \in NoRetryCodes \/ c1.attempt > c1.retries
        THEN QueryFinally([c1 EXCEPT !.pc = "thrown", !.error = e], p)
        ELSE [call |-> [c1 EXCEPT !.pc = "wait"], pool |-> p]

\* the test of the while loop
QueryLoop(c) ==
    [c EXCEPT !.pc = IF c.attempt <= c.retries THEN "connect" ELSE "returned"]

\* query(text, params, retries): trail is the outcome of every attempt so far
\* and execs the number of times client.query ran the statement
QueryCall(r) ==
    /\ call.fn = "none" /\ run.pc = "idle"
    /\ call' = QueryLoop([fn |-> "query", pc |-> "loop", retries |-> r, attempt |-> 0,
                          client |-> "none", trail |-> <<>>, execs |-> 0,
                          error |-> "none"])
    /\ UNCHANGED <<pool, migrations, schema, run>>
    /\ UNCHANGED appVars

\* client = await pool.connect()
QueryConnect(outcome) ==
    /\ call.fn = "query" /\ call.pc = "connect"
    /\ LET next == IF outcome = "ok"
                   THEN [call |-> [call EXCEPT !.client = "held", !.pc = "exec"],
                         pool |-> Acquire(pool)]
                   ELSE QueryCatch(call, pool, outcome)
       IN  call' = next.call /\ pool' = next.pool
    /\ UNCHANGED <<migrations, schema, run>>
    /\ UNCHANGED appVars

\* const res = await client.query(text, params); return res
QueryExec(outcome) ==
    /\ call.fn = "query" /\ call.pc = "exec"
    /\ LET ran  == [call EXCEPT !.execs = @ + 1]
           next == IF outcome = "ok"
                   THEN QueryFinally([ran EXCEPT !.pc = "returned",
                                                 !.trail = Append(@, "ok")], pool)
                   ELSE QueryCatch(ran, pool, outcome)
       IN  call' = next.call /\ pool' = next.pool
    /\ UNCHANGED <<migrations, schema, run>>
    /\ UNCHANGED appVars

\* the backoff timer fires: the finally block, then the loop test
QueryWait ==
    /\ call.fn = "query" /\ call.pc = "wait"
    /\ LET next == QueryFinally(call, pool)
       IN  call' = QueryLoop(next.call) /\ pool' = next.pool
    /\ UNCHANGED <<migrations, schema, run>>
    /\ UNCHANGED appVars

\* the caller takes the result or the error of a database.js call
CallEnd ==
    /\ call.fn \in {"query", "transaction"} /\ call.pc \in {"returned", "thrown"}
    /\ call' = NoCall
    /\ UNCHANGED <<pool, migrations, schema, run>>
    /\ UNCHANGED appVars

\* the steps of a running query call
QueryStep ==
    \/ \E outcome \in {"ok"} \cup ConnectErrors : QueryConnect(outcome)
    \/ \E outcome \in {"ok"} \cup QueryErrors : QueryExec(outcome)
    \/ QueryWait

\* query calls one after the other; a running call is not left waiting for
\* ever: the pool, the server and the timer answer
NextQuery ==
    \/ \E r \in 0..MaxRetries : QueryCall(r)
    \/ QueryStep
    \/ CallEnd

SpecQuery == Init /\ [][NextQuery]_vars /\ WF_vars(QueryStep)

\* ------------------------------------------------- database.js: transaction
\* the outcomes of BEGIN, COMMIT and of a statement of the migrator: done, or
\* the connection failed
StatementOutcomes == {"ok", "08006"}

\* the outcomes of ROLLBACK
RollbackOutcomes == {"ok", "08003"}

\* finally { client.release(); }: the const client still refers to the client
ClientFinally(c, p) ==
    [call |-> [c EXCEPT !.client = "released"], pool |-> Release(p, c.client)]

\* transaction(callback)
TransactionCall ==
    /\ call.fn = "none" /\ run.pc = "idle"
    /\ call' = [fn |-> "transaction", pc |-> "connect", client |-> "none",
                error |-> "none"]
    /\ UNCHANGED <<pool, migrations, schema, run>>
    /\ UNCHANGED appVars

\* const client = await pool.connect(), before the try
TxConnect(outcome) ==
    /\ call.fn = "transaction" /\ call.pc = "connect"
    /\ IF outcome = "ok"
       THEN /\ call' = [call EXCEPT !.client = "held", !.pc = "begin"]
            /\ pool' = Acquire(pool)
       ELSE /\ call' = [call EXCEPT !.pc = "thrown", !.error = outcome]
            /\ UNCHANGED pool
    /\ UNCHANGED <<migrations, schema, run>>
    /\ UNCHANGED appVars

\* an awaited statement of the try block: on to the next one, out through the
\* finally block after the last, or into the catch block
TxStatement(stmt, next, outcome) ==
    /\ call.fn = "transaction" /\ call.pc = stmt
    /\ LET after == IF outcome # "ok"
                    THEN [call |-> [call EXCEPT !.pc = "rollback", !.error = outcome],
                          pool |-> pool]
                    ELSE IF next = "returned"
                    THEN ClientFinally([call EXCEPT !.pc = "returned"], pool)
                    ELSE [call |-> [call EXCEPT !.pc = next], pool |-> pool]
       IN  call' = after.call /\ pool' = after.pool
    /\ UNCHANGED <<migrations, schema, run>>
    /\ UNCHANGED appVars

\* catch: await client.query('ROLLBACK'); throw error.  A ROLLBACK that
\* rejects throws its own error; the finally block runs either way
TxRollback(outcome) ==
    /\ call.fn = "transaction" /\ call.pc = "rollback"
    /\ LET after == ClientFinally(
                        [call EXCEPT !.pc = "thrown",
                                     !.error = IF outcome = "ok" THEN @ ELSE outcome],
                        pool)
       IN  call' = after.call /\ pool' = after.pool
    /\ UNCHANGED <<migrations, schema, run>>
    /\ UNCHANGED appVars

\* the steps of a running transaction call: pool.connect(), BEGIN, the
\* callback, COMMIT and return, and the catch block
TransactionStep ==
    \/ \E outcome \in {"ok"} \cup ConnectErrors : TxConnect(outcome)
    \/ \E outcome \in StatementOutcomes : TxStatement("begin", "callback", outcome)
    \/ \E outcome \in StatementOutcomes \cup {"23505"} :
           TxStatement("callback", "commit", outcome)
    \/ \E outcome \in StatementOutcomes : TxStatement("commit", "returned", outcome)
    \/ \E outcome \in RollbackOutcomes : TxRollback(outcome)

\* ------------------------------------------------------- DatabaseMigrator
\* the .sql files of the migrations directory, named by the digits their
\* names begin with
MigrationFiles == { <<"0", "0", "3">>, <<"0", "0", "4">>, <<"1", "0">> }

\* a sorts before b in Array.prototype.sort(): the order of the UTF-16 code
\* units, which for digits is the order of their values; a proper prefix
\* sorts first
RECURSIVE Before(_, _)
Before(a, b) ==
    IF b = <<>> THEN FALSE
    ELSE IF a = <<>> THEN TRUE
    ELSE IF Head(a) # Head(b) THEN DigitVal[Head(a)] < DigitVal[Head(b)]
    ELSE Before(Tail(a), Tail(b))

\* a directory listing in descending order
RECURSIVE GetMigrationFiles_Descending(_)
GetMigrationFiles_Descending(dir) ==
    IF dir = {} THEN <<>>
    ELSE LET last == CHOOSE f \in dir : \A g \in dir \ {f} : Before(g, f)
         IN  <<last>> \o GetMigrationFiles_Descending(dir \ {last})

\* getMigrationFiles: readdir, the .sql files, .sort()
RECURSIVE GetMigrationFiles(_)
GetMigrationFiles(dir) ==
    IF dir = {} THEN <<>>
    ELSE LET first == CHOOSE f \in dir : \A g \in dir \ {f} : Before(f, g)
         IN  <<first>> \o GetMigrationFiles(dir \ {first})

\* getExecutedMigrations: SELECT filename FROM migrations WHERE status =
\* 'completed'
GetExecutedMigrations(tbl) ==
    {tbl[i].filename : i \in {j \in 1..Len(tbl) : tbl[j].status = "completed"}}

\* migrationFiles.filter(filename => !executedMigrations.includes(filename))
PendingMigrations(files, executed) ==
    SelectSeq(files, LAMBDA f : f \notin executed)

\* filename VARCHAR(255) NOT NULL UNIQUE: an INSERT of a filename the table
\* holds is rejected with 23505
FilenameTaken(tbl, filename) ==
    \E i \in 1..Len(tbl) : tbl[i].filename = filename

\* the row an INSERT INTO migrations adds
MigrationRow(filename, status) == [filename |-> filename, status |-> status]

\* the catch block of executeMigration from an awaited statement of the try
Failed(c, e, byEnvironment) ==
    [c EXCEPT !.pc = "rollback", !.error = e, !.fault = @ \/ byEnvironment]

\* const client = await db.getClient(), before the try; fault records that the
\* pool or the server made a statement of the call fail
ExecConnect(outcome) ==
    /\ call.fn = "executeMigration" /\ call.pc = "connect"
    /\ IF outcome = "ok"
       THEN /\ call' = [call EXCEPT !.client = "held", !.pc = "begin"]
            /\ pool' = Acquire(pool)
       ELSE /\ call' = [call EXCEPT !.pc = "thrown", !.error = outcome,
                                    !.fault = TRUE]
            /\ UNCHANGED pool
    /\ UNCHANGED <<migrations, schema, run>>
    /\ UNCHANGED appVars

\* await client.query('BEGIN')
ExecBegin(outcome) ==
    /\ call.fn = "executeMigration" /\ call.pc = "begin"
    /\ call' = IF outcome = "ok" THEN [call EXCEPT !.pc = "content"]
               ELSE Failed(call, outcome, TRUE)
    /\ UNCHANGED <<pool, migrations, schema, run>>
    /\ UNCHANGED appVars

\* await client.query(migration.content): the statements of the file, applied
\* in the open transaction, or an error of one of them
ExecContent(outcome) ==
    /\ call.fn = "executeMigration" /\ call.pc = "content"
    /\ IF outcome = "ok"
       THEN /\ call' = [call EXCEPT !.pc = "record"]
            /\ schema' = [schema EXCEPT !.open = @ \cup {"content"}]
       ELSE /\ call' = Failed(call, outcome, TRUE)
            /\ UNCHANGED schema
    /\ UNCHANGED <<pool, migrations, run>>
    /\ UNCHANGED appVars

\* INSERT INTO migrations (...) VALUES (filename, ..., 'completed') in the
\* open transaction
ExecRecord(outcome) ==
    /\ call.fn = "executeMigration" /\ call.pc = "record"
    /\ IF outcome # "ok"
       THEN /\ call' = Failed(call, outcome, TRUE)
            /\ UNCHANGED schema
       ELSE IF FilenameTaken(migrations, call.file)
       THEN /\ call' = Failed(call, "23505", FALSE)
            /\ UNCHANGED schema
       ELSE /\ call' = [call EXCEPT !.pc = "commit"]
            /\ schema' = [schema EXCEPT !.open = @ \cup {"record"}]
    /\ UNCHANGED <<pool, migrations, run>>
    /\ UNCHANGED appVars

\* await client.query('COMMIT'): the statements of the file and the row are
\* committed and the call returns through the finally block; a COMMIT that
\* rejects commits nothing
ExecCommit(outcome) ==
    /\ call.fn = "executeMigration" /\ call.pc = "commit"
    /\ IF outcome = "ok"
       THEN LET after == ClientFinally([call EXCEPT !.pc = "returned"], pool)
            IN  /\ call' = after.call /\ pool' = after.pool
                /\ schema' = [applied |-> schema.applied \cup {call.file},
                              open |-> {}]
                /\ migrations' =
                       Append(migrations, MigrationRow(call.file, "completed"))
       ELSE /\ call' = Failed(call, outcome, TRUE)
            /\ UNCHANGED <<pool, schema, migrations>>
    /\ UNCHANGED run
    /\ UNCHANGED appVars

\* catch: await client.query('ROLLBACK').  The open transaction is undone; a
\* ROLLBACK that rejects (the connection is gone, and the server drops the
\* transaction with it) throws out of the catch block through the finally
ExecRollback(outcome) ==
    /\ call.fn = "executeMigration" /\ call.pc = "rollback"
    /\ schema' = [schema EXCEPT !.open = {}]
    /\ IF outcome = "ok"
       THEN /\ call' = [call EXCEPT !.pc = "record_failure"]
            /\ UNCHANGED pool
       ELSE LET after == ClientFinally(
                             [call EXCEPT !.pc = "thrown", !.error = outcome,
                                          !.fault = TRUE], pool)
            IN  call' = after.call /\ pool' = after.pool
    /\ UNCHANGED <<migrations, run>>
    /\ UNCHANGED appVars

\* catch: the INSERT of the row with status 'failed', outside a transaction
\* and inside its own try (an error of it is logged only); then throw error
\* through the finally block
ExecRecordFailure(outcome) ==
    /\ call.fn = "executeMigration" /\ call.pc = "record_failure"
    /\ migrations' = IF outcome = "ok" /\ ~FilenameTaken(migrations, call.file)
                     THEN Append(migrations, MigrationRow(call.file, "failed"))
                     ELSE migrations
    /\ LET after == ClientFinally([call EXCEPT !.pc = "thrown"], pool)
       IN  call' = after.call /\ pool' = after.pool
    /\ UNCHANGED <<schema, run>>
    /\ UNCHANGED appVars

\* the steps of a running executeMigration call
ExecuteMigrationStep ==
    \/ \E outcome \in {"ok"} \cup ConnectErrors : ExecConnect(outcome)
    \/ \E outcome \in StatementOutcomes : ExecBegin(outcome)
    \/ \E outcome \in {"ok", "42601"} : ExecContent(outcome)
    \/ \E outcome \in StatementOutcomes : ExecRecord(outcome)
    \/ \E outcome \in StatementOutcomes : ExecCommit(outcome)
    \/ \E outcome \in RollbackOutcomes : ExecRollback(outcome)
    \/ \E outcome \in StatementOutcomes : ExecRecordFailure(outcome)

\* the result object of runMigrations
RunDone(q, success, executed) ==
    [q EXCEPT !.pc = "done", !.success = success, !.executed = executed]

\* runMigrations(): ran lists the files executeMigration was called for
RunMigrations ==
    /\ run.pc = "idle" /\ call.fn = "none"
    /\ run' = [pc |-> "init", pending |-> <<>>, ran |-> <<>>, executedCount |-> 0,
               success |-> FALSE, executed |-> 0]
    /\ UNCHANGED <<pool, call, migrations, schema>>
    /\ UNCHANGED appVars

\* await this.initializeMigrationsTable(): the error of its db.query is
\* rethrown into the catch of runMigrations.  The clients of the db.query
\* calls of the migrator are acquired and released inside query
RunInit(outcome) ==
    /\ run.pc = "init"
    /\ run' = IF outcome = "ok" THEN [run EXCEPT !.pc = "list"]
              ELSE RunDone(run, FALSE, 0)
    /\ UNCHANGED <<pool, call, migrations, schema>>
    /\ UNCHANGED appVars

\* Promise.all([getMigrationFiles(), getExecutedMigrations()]) and the filter
RunList(outcome) ==
    /\ run.pc = "list"
    /\ LET pendingMigrations ==
               PendingMigrations(GetMigrationFiles(MigrationFiles),
                                 GetExecutedMigrations(migrations))
       IN  run' = IF outcome # "ok" THEN RunDone(run, FALSE, 0)
                  ELSE IF Len(pendingMigrations) = 0 THEN RunDone(run, TRUE, 0)
                  ELSE [run EXCEPT !.pc = "next", !.pending = pendingMigrations]
    /\ UNCHANGED <<pool, call, migrations, schema>>
    /\ UNCHANGED appVars

\* for (const filename of pendingMigrations): readMigrationFile and the call
\* of executeMigration, or the end of the loop
RunNext ==
    /\ run.pc = "next"
    /\ IF Len(run.ran) = Len(run.pending)
       THEN /\ run' = RunDone(run, TRUE, run.executedCount)
            /\ UNCHANGED call
       ELSE LET filename == run.pending[Len(run.ran) + 1]
            IN  /\ run' = [run EXCEPT !.pc = "await", !.ran = Append(@, filename)]
                /\ call' = [fn |-> "executeMigration", pc |-> "connect",
                            file |-> filename, client |-> "none",
                            error |-> "none", fault |-> FALSE]
    /\ UNCHANGED <<pool, migrations, schema>>
    /\ UNCHANGED appVars

\* executeMigration returned (executedCount++) or threw (the catch of
\* runMigrations: success false)
RunResume ==
    /\ run.pc = "await"
    /\ call.fn = "executeMigration" /\ call.pc \in {"returned", "thrown"}
    /\ run' = IF call.pc = "returned"
              THEN [run EXCEPT !.pc = "next", !.executedCount = @ + 1]
              ELSE RunDone(run, FALSE, 0)
    /\ call' = NoCall
    /\ UNCHANGED <<pool, migrations, schema>>
    /\ UNCHANGED appVars

\* the caller takes the result object
RunEnd ==
    /\ run.pc = "done"
    /\ run' = NoRun
    /\ UNCHANGED <<pool, call, migrations, schema>>
    /\ UNCHANGED appVars

\* the steps of runMigrations
RunStep ==
    \/ RunMigrations
    \/ \E outcome \in StatementOutcomes : RunInit(outcome)
    \/ \E outcome \in StatementOutcomes : RunList(outcome)
    \/ RunNext
    \/ ExecuteMigrationStep
    \/ RunResume
    \/ RunEnd

\* runMigrations called again and again (npm run db:migrate)
SpecMigrate == Init /\ [][RunStep]_vars

\* query, transaction and runMigrations calls, one after the other
NextDb ==
    \/ \E r \in 0..MaxRetries : QueryCall(r)
    \/ QueryStep
    \/ TransactionCall
    \/ TransactionStep
    \/ CallEnd
    \/ RunStep

SpecDb == Init /\ [][NextDb]_vars

\* ---------------------------------------------------------- claim vocabulary
Tables == <<users, devices, blocked_attempts, security_alerts>>

\* context r sends the response of an op request in this step
Responds(r, op) ==
    req[r].pc # "done" /\ req'[r].pc = "done" /\ req'[r].op = op

\* a segment that does not respond reads only
ReadOnlySegments ==
    \A r \in Reqs :
        (req'[r] # req[r] /\ req'[r].pc # "done") => UNCHANGED <<Tables, session>>

\* new is old with n rows appended
Appended(old, new, n) ==
    Len(new) = Len(old) + n /\ SubSeq(new, 1, Len(old)) = old

Last(tbl) == tbl[Len(tbl)]

IsAdmin(u) == u \in DOMAIN users /\ users[u].role = "admin"

Online(d) == d \in DOMAIN devices /\ devices[d].status = "online"

Secured(d) == d \in DOMAIN devices /\ devices[d].firmware_version \notin {NullStr, ""}

\* the snapshot a connection to device d holds
Snapshot(d) ==
    [id |-> d, firmwareVersion |-> devices[d].firmware_version,
     status |-> devices[d].status]

\* the path parameter is the decimal numeral of a positive integer
PositiveNumeral(raw) ==
    /\ raw # <<>>
    /\ \A i \in 1..Len(raw) : raw[i] \in DOMAIN DigitVal
    /\ Decimal(raw, 0) > 0

\* ------------------------------------------------------------------ C1
\* C1: a connect by a non-admin user to an online device with a non-empty
\* firmware_version answers 403 Forbidden, appends exactly one blocked_attempts
\* row, of type unauthorized_access, adds no security_alerts row and leaves
\* the session without a new connection.
C1_ForbiddenOnSecured ==
    [][ /\ ReadOnlySegments
        /\ \A r \in Reqs :
             LET q == req'[r] IN
             (/\ Responds(r, "connect") /\ ~IsNaN(ParseInt(q.raw))
              /\ ~IsAdmin(q.user) /\ Online(q.deviceId) /\ Secured(q.deviceId))
             => /\ q.status = 403 /\ q.kind = "Forbidden" /\ q.device = {}
                /\ Appended(blocked_attempts, blocked_attempts', 1)
                /\ Last(blocked_attempts').attempt_type = "unauthorized_access"
                /\ Last(blocked_attempts').target_device_id = q.deviceId
                /\ security_alerts' = security_alerts
                /\ session' = session ]_vars

C1_Witness ==
    \E r \in Reqs :
        /\ req[r].pc = "done" /\ req[r].op = "connect" /\ req[r].kind = "Forbidden"
        /\ ~IsAdmin(req[r].user) /\ Online(req[r].deviceId) /\ Secured(req[r].deviceId)
        /\ blocked_attempts # <<>>
        /\ Last(blocked_attempts).attempt_type = "unauthorized_access"
        /\ session[req[r].user] = {}

\* ------------------------------------------------------------------ C2
\* C2: a connect by a non-admin user to an online device whose
\* firmware_version is empty or NULL answers 200 Allowed with the device
\* snapshot, appends exactly one security_alerts row, active and of severity
\* medium, adds no blocked_attempts row and leaves the session connected to
\* that device.
C2_AllowedWithAlertOnUnsecured ==
    [][ /\ ReadOnlySegments
        /\ \A r \in Reqs :
             LET q == req'[r] IN
             (/\ Responds(r, "connect") /\ ~IsNaN(ParseInt(q.raw))
              /\ ~IsAdmin(q.user) /\ Online(q.deviceId) /\ ~Secured(q.deviceId))
             => /\ q.status = 200 /\ q.kind = "Allowed"
                /\ q.device = {Snapshot(q.deviceId)}
                /\ Appended(security_alerts, security_alerts', 1)
                /\ Last(security_alerts').status = "active"
                /\ Last(security_alerts').severity = "medium"
                /\ Last(security_alerts').device_id = {q.deviceId}
                /\ blocked_attempts' = blocked_attempts
                /\ session'[q.user] = {Snapshot(q.deviceId)} ]_vars

C2_Witness ==
    \E r \in Reqs :
        /\ req[r].pc = "done" /\ req[r].op = "connect" /\ req[r].kind = "Allowed"
        /\ ~IsAdmin(req[r].user) /\ Online(req[r].deviceId)
        /\ devices[req[r].deviceId].firmware_version = NullStr
        /\ security_alerts # <<>>
        /\ Last(security_alerts).severity = "medium"
        /\ Last(security_alerts).device_id = {req[r].deviceId}
        /\ session[req[r].user] = {Snapshot(req[r].deviceId)}

\* ------------------------------------------------------------------ C3
\* C3: a connect by an admin to an online device, secured or not, answers 200
\* Allowed, stores the connection in the session and adds no blocked_attempts
\* and no security_alerts row.
C3_AdminAlwaysAllowed ==
    [][ /\ ReadOnlySegments
        /\ \A r \in Reqs :
             LET q == req'[r] IN
             (/\ Responds(r, "connect") /\ ~IsNaN(ParseInt(q.raw))
              /\ IsAdmin(q.user) /\ Online(q.deviceId))
             => /\ q.status = 200 /\ q.kind = "Allowed"
                /\ session'[q.user] = {Snapshot(q.deviceId)}
                /\ blocked_attempts' = blocked_attempts
                /\ security_alerts' = security_alerts ]_vars

C3_Witness ==
    \E r \in Reqs :
        /\ req[r].pc = "done" /\ req[r].op = "connect" /\ req[r].kind = "Allowed"
        /\ IsAdmin(req[r].user) /\ Online(req[r].deviceId) /\ Secured(req[r].deviceId)
        /\ session[req[r].user] = {Snapshot(req[r].deviceId)}
        /\ blocked_attempts = <<>> /\ security_alerts = <<>>

\* ------------------------------------------------------------------ C4
\* C4: a connect to an existing device that is not online answers 400
\* DeviceOffline and appends exactly one blocked_attempts row, of type
\* offline_device, for every user and every firmware_version: the permission
\* rule is not reached.
C4_OfflineBeforePermission ==
    [][ /\ ReadOnlySegments
        /\ \A r \in Reqs :
             LET q == req'[r] IN
             (/\ Responds(r, "connect") /\ ~IsNaN(ParseInt(q.raw))
              /\ q.deviceId \in DOMAIN devices /\ ~Online(q.deviceId))
             => /\ q.status = 400 /\ q.kind = "DeviceOffline"
                /\ Appended(blocked_attempts, blocked_attempts', 1)
                /\ Last(blocked_attempts').attempt_type = "offline_device"
                /\ Last(blocked_attempts').target_device_id = q.deviceId
                /\ security_alerts' = security_alerts
                /\ session' = session ]_vars

C4_Witness ==
    \E r \in Reqs :
        /\ req[r].pc = "done" /\ req[r].op = "connect" /\ req[r].kind = "DeviceOffline"
        /\ IsAdmin(req[r].user)
        /\ devices[req[r].deviceId].status = "alert"
        /\ ~Secured(req[r].deviceId)
        /\ blocked_attempts # <<>>
        /\ Last(blocked_attempts).attempt_type = "offline_device"

\* ------------------------------------------------------------------ C5
\* C5: a connect whose deviceId names no device answers 404 NotFound and
\* appends a blocked_attempts row with that target_device_id and the type
\* invalid_device.
C5_NotFoundIsRecorded ==
    [][ \A r \in Reqs :
             LET q == req'[r] IN
             (/\ Responds(r, "connect") /\ ~IsNaN(ParseInt(q.raw))
              /\ q.deviceId \notin DOMAIN devices)
             => /\ q.status = 404 /\ q.kind = "NotFound"
                /\ Appended(blocked_attempts, blocked_attempts', 1)
                /\ Last(blocked_attempts').attempt_type = "invalid_device"
                /\ Last(blocked_attempts').target_device_id = q.deviceId ]_vars

\* ------------------------------------------------------------------ C6
\* C6: a connect whose deviceId is not the numeral of a positive integer
\* answers 400 InvalidInput in its first segment (no lookup), writes no audit
\* row and leaves the session as it was.
C6_MalformedIdIsInvalidInput ==
    [][ \A r \in Reqs :
             LET q == req'[r] IN
             (Responds(r, "connect") /\ ~PositiveNumeral(TrimStart(q.raw)))
             => /\ q.status = 400 /\ q.kind = "InvalidInput"
                /\ req[r].pc = "idle"
                /\ UNCHANGED <<Tables, session>> ]_vars

C8_SingleConnectionReplaced ==
    /\ [](\A u \in DOMAIN session : Cardinality(session[u]) <= 1)
    /\ [][ \A r \in Reqs :
             LET q == req'[r] IN
             (/\ Responds(r, "connect") /\ q.kind = "Allowed"
              /\ \E c \in session[q.user] : c.id # q.deviceId)
             => /\ session'[q.user] = {Snapshot(q.deviceId)}
                /\ blocked_attempts' = blocked_attempts
                /\ Len(security_alerts') <= Len(security_alerts) + 1
                /\ \A i \in (Len(security_alerts) + 1)..Len(security_alerts') :
                       security_alerts'[i].device_id = {q.deviceId} ]_vars

C8_Witness ==
    \E r \in Reqs :
        /\ req[r].pc = "done" /\ req[r].op = "connect" /\ req[r].kind = "Allowed"
        /\ \E c \in req[r].before : c.id # req[r].deviceId
        /\ session[req[r].user] = {Snapshot(req[r].deviceId)}
        /\ \E o \in Reqs \ {r} : req[o].pc \notin {"idle", "done"}

\* ------------------------------------------------------------------ C9
\* C9: a resolve of an active alert (resolved_by absent or naming a user)
\* leaves the alert resolved with resolved_at set, both written by the one
\* update; a resolve of an alert that is not active answers an error and
\* leaves the table as it was.
C9_ResolveActiveOnly ==
    [][ \A r \in Reqs :
             LET q == req'[r]
                 found == FindById(security_alerts, q.alertId)
                 after == FindById(security_alerts', q.alertId)
             IN
             (Responds(r, "resolve") /\ ~IsNaN(ParseInt(q.raw)) /\ found # {})
             => \A a \in found :
                  /\ (a.status = "active" /\ q.body.resolved_by \subseteq DOMAIN users)
                     => \A b \in after :
                           b.status = "resolved" /\ b.resolved_at # NullStr
                  /\ a.status # "active"
                     => q.status >= 400 /\ security_alerts' = security_alerts ]_vars

\* ------------------------------------------------------------------ C10
\* C10: in every reachable state a security_alerts row has resolved_at set
\* exactly when its status is resolved.
C10_ResolvedAtIffResolved ==
    \A i \in 1..Len(security_alerts) :
        (security_alerts[i].resolved_at # NullStr)
            <=> (security_alerts[i].status = "resolved")

C10_Witness ==
    /\ \E i \in 1..Len(security_alerts) :
          /\ security_alerts[i].status = "resolved"
          /\ security_alerts[i].resolved_at # NullStr
          /\ security_alerts[i].device_id # {}
    /\ \E i \in 1..Len(security_alerts) : security_alerts[i].status = "active"

\* ------------------------------------------------------------------ C11
\* C11: in each of the four branches that record an audit row (not found,
\* offline, forbidden, unsecured-allowed) the segment that runs the recorder
\* sends the response of the branch whether or not the insert succeeds: a
\* failed insert writes nothing and still gives 404, 400, 403 or 200, never 500,
\* and in the unsecured-allowed branch the session is connected to the device.
BranchStatus ==
    [log_invalid |-> 404, log_offline |-> 400, log_unauthorized |-> 403, alert |-> 200]

BranchKind ==
    [log_invalid |-> "NotFound", log_offline |-> "DeviceOffline",
     log_unauthorized |-> "Forbidden", alert |-> "Allowed"]

C11_AuditFailureKeepsOutcome ==
    [][ \A r \in Reqs :
             LET q == req[r] IN
             (q.op = "connect" /\ q.pc \in DOMAIN BranchStatus /\ req'[r] # q)
             => /\ req'[r].pc = "done"
                /\ req'[r].status = BranchStatus[q.pc]
                /\ req'[r].kind = BranchKind[q.pc]
                /\ storage = "down" => UNCHANGED Tables
                /\ IF q.pc = "alert"
                   THEN /\ session'[q.user] = {ConnectedDevice(q.device)}
                        /\ req'[r].device = {ConnectedDevice(q.device)}
                   ELSE session' = session ]_vars

C11_Witness ==
    \E r \in Reqs :
        /\ req[r].pc = "done" /\ req[r].op = "connect" /\ req[r].kind = "Allowed"
        /\ ~IsAdmin(req[r].user) /\ ~Secured(req[r].deviceId)
        /\ storage = "down"
        /\ security_alerts = <<>> /\ blocked_attempts = <<>>
        /\ session[req[r].user] = {Snapshot(req[r].deviceId)}

\* ------------------------------------------------------------------ C12
\* C12: a connect whose device lookup throws answers 500 StorageFailure in
\* that segment, writes no blocked_attempts and no security_alerts row and
\* leaves the session as it was.
C12_LookupFailureIs500 ==
    [][ \A r \in Reqs :
             LET q == req[r] IN
             (q.op = "connect" /\ q.pc = "lookup" /\ req'[r] # q /\ storage = "down")
             => /\ req'[r].pc = "done"
                /\ req'[r].status = 500 /\ req'[r].kind = "StorageFailure"
                /\ req'[r].device = {}
                /\ UNCHANGED <<Tables, session>> ]_vars

C12_Witness ==
    \E r \in Reqs :
        /\ req[r].pc = "done" /\ req[r].op = "connect"
        /\ req[r].status = 500 /\ req[r].kind = "StorageFailure"
        /\ storage = "down"
        /\ \E c \in session[req[r].user] : c.id # req[r].deviceId

\* ------------------------------------------------------------------ C13
\* C13: when the role lookup throws, the permission segment takes the
\* not-permitted branch for every user, admin included: it connects nobody and
\* goes on to the blocked-attempt recorder for a secured device and to the
\* alert recorder for an unsecured one; these then answer 403 Forbidden and
\* 200 Allowed, and write their row when the insert succeeds.
C13_RoleLookupFailsClosed ==
    [][ \A r \in Reqs :
             LET q == req[r] IN
             /\ (q.op = "connect" /\ q.pc = "permission" /\ req'[r] # q
                 /\ storage = "down")
                => /\ req'[r].pc = IF q.device.has_security_enabled
                                   THEN "log_unauthorized" ELSE "alert"
                   /\ UNCHANGED <<Tables, session>>
             /\ (q.op = "connect" /\ q.pc = "log_unauthorized" /\ req'[r] # q)
                => /\ req'[r].status = 403 /\ req'[r].kind = "Forbidden"
                   /\ session' = session
                   /\ storage = "up" =>
                        /\ Appended(blocked_attempts, blocked_attempts', 1)
                        /\ Last(blocked_attempts').attempt_type = "unauthorized_access"
             /\ (q.op = "connect" /\ q.pc = "alert" /\ req'[r] # q)
                => /\ req'[r].status = 200 /\ req'[r].kind = "Allowed"
                   /\ storage = "up" =>
                        /\ Appended(security_alerts, security_alerts', 1)
                        /\ Last(security_alerts').device_id = {q.deviceId} ]_vars

C13_Witness ==
    \E r \in Reqs :
        /\ req[r].pc = "done" /\ req[r].op = "connect" /\ req[r].kind = "Forbidden"
        /\ IsAdmin(req[r].user) /\ Secured(req[r].deviceId)
        /\ blocked_attempts # <<>>
        /\ Last(blocked_attempts).attempt_type = "unauthorized_access"
        /\ Last(blocked_attempts).user_id = req[r].user
        /\ session[req[r].user] = {}

C15_AttemptsAreCounted ==
    [][ \A r \in Reqs :
             (/\ Responds(r, "connect")
              /\ req'[r].kind \in {"DeviceOffline", "Forbidden"}
              /\ \E i \in 1..Len(blocked_attempts) :
                     blocked_attempts[i].source_ip = req[r].ip)
             => \E i \in 1..Len(blocked_attempts) :
                   /\ blocked_attempts'[i].source_ip = req[r].ip
                   /\ blocked_attempts'[i].attempt_count =
                          blocked_attempts[i].attempt_count + 1 ]_vars

C17_DeleteKeepsAuditTrail ==
    [][ \A r \in Reqs :
             LET q == req[r]
                 refs == References(blocked_attempts, security_alerts, q.deviceId)
             IN
             (/\ q.op = "deleteDevice" /\ q.pc = "delete" /\ req'[r] # q
              /\ q.deviceId \in DOMAIN devices
              /\ (refs.blocked # {} \/ refs.alerts # {}))
             => /\ req'[r].status = 200
                /\ q.deviceId \notin DOMAIN devices'
                /\ Len(blocked_attempts') = Len(blocked_attempts)
                /\ Len(security_alerts') = Len(security_alerts)
                /\ References(blocked_attempts', security_alerts', q.deviceId)
                      = [blocked |-> {}, alerts |-> {}] ]_vars

\* ------------------------------------------------------------------ C18
\* C18: a devices request of a session without a user is answered 401 in its
\* first segment and changes neither devices nor security_alerts.
C18_ApiRequiresSession ==
    [][ \A r \in Reqs :
             LET q == req'[r] IN
             (/\ q # req[r]
              /\ q.op \in {"listDevices", "createDevice", "updateDevice",
                            "deleteDevice", "heartbeat"}
              /\ q.sessionUser = {})
             => /\ q.pc = "done" /\ q.status = 401
                /\ UNCHANGED <<devices, security_alerts>> ]_vars

\* ------------------------------------------------------------------ C19
\* C19: whenever a step stores a connection in a session, the device of the
\* connection is in the devices table with status online at that moment, also
\* when a device update, heartbeat or delete runs between the segments of the
\* connect.
C19_ConnectionOnlyToOnlineDevice ==
    [][ \A u \in DOMAIN session :
             (session'[u] # session[u] /\ session'[u] # {})
             => \A c \in session'[u] :
                   c.id \in DOMAIN devices' /\ devices'[c.id].status = "online" ]_vars

\* ------------------------------------------------------------------ C20
\* C20: a connect answers Allowed, and a disconnect completes, only for a user
\* whose is_active flag is true at that moment, also when the flag was cleared
\* after the login.
C20_InactiveUsersAreRefused ==
    [][ \A r \in Reqs :
             LET q == req'[r] IN
             (\/ Responds(r, "connect") /\ q.kind = "Allowed"
              \/ Responds(r, "disconnect") /\ q.kind = "Disconnected")
             => q.user \in DOMAIN users /\ users[q.user].is_active ]_vars

\* ------------------------------------------------------------------ C21
\* C21: every security_alerts row with status resolved has a resolved_by that
\* is not NULL and names a row of users.
C21_ResolvedHasResolver ==
    \A i \in 1..Len(security_alerts) :
        security_alerts[i].status = "resolved"
        => /\ security_alerts[i].resolved_by # {}
           /\ security_alerts[i].resolved_by \subseteq DOMAIN users

\* ------------------------------------------------------------------ C22
\* C22: a step changes the role of a user only when it belongs to a request
\* whose session user is an admin; a request without a session user, or of a
\* user whose role is not admin, changes no role.
C22_RoleChangeRequiresAdmin ==
    [][ (\E u \in DOMAIN users : users'[u].role # users[u].role)
        => \E r \in Reqs :
              /\ req[r].op = "updateUser"
              /\ req[r].sessionUser # {}
              /\ \A c \in req[r].sessionUser :
                    c \in DOMAIN users /\ users[c].role = "admin" ]_vars

\* ------------------------------------------------------------------ C23
\* C23: the row a device create inserts has status offline although the body
\* asks for online; a connect that finds a device answers DeviceOffline exactly
\* when the status of the device is not online, so it does for a created
\* device until a heartbeat or an update sets online; a heartbeat that
\* succeeds leaves the device online, and a connect to a device that is online
\* never answers DeviceOffline.
C23_CreatedOfflineUntilHeartbeat ==
    [][ \A r \in Reqs :
          LET q == req'[r] IN
          /\ (Responds(r, "createDevice") /\ q.kind = "Created")
             => /\ q.body.status = "online"
                /\ q.deviceId \notin DOMAIN devices
                /\ devices'[q.deviceId].status = "offline"
          /\ (Responds(r, "heartbeat") /\ q.kind = "HeartbeatRecorded")
             => devices'[q.deviceId].status = "online"
          /\ (Responds(r, "connect") /\ q.deviceId \in DOMAIN devices
                 /\ q.kind \notin {"AccessDenied", "InvalidInput"})
             => (q.kind = "DeviceOffline" <=> ~Online(q.deviceId)) ]_vars

\* device 4 was created, a connect to it was refused as offline and recorded,
\* and after a heartbeat a connect to it is allowed
C23_Witness ==
    /\ \E i \in 1..Len(blocked_attempts) :
          /\ blocked_attempts[i].target_device_id = 4
          /\ blocked_attempts[i].attempt_type = "offline_device"
    /\ req["r1"].op = "connect" /\ req["r1"].pc = "done"
    /\ req["r1"].deviceId = 4 /\ req["r1"].kind = "Allowed"

\* ------------------------------------------------------------------ C24
\* the place of a step in the order validate, decide, record, mutate session
\* state, respond
StepRank ==
    "validate" :> 1 @@ "decide" :> 2 @@ "record" :> 3 @@ "session" :> 4 @@
    "respond" :> 5

\* the steps a step of the system adds to the log of context r
NewSteps(r) ==
    IF req[r].pc = "idle" THEN req'[r].log
    ELSE SubSeq(req'[r].log, Len(req[r].log) + 1, Len(req'[r].log))

\* C24: the steps of a connect request are taken in the order validate,
\* decide, record, mutate session state, respond: the log of every connect
\* starts with validate and never steps back in that order, the response is
\* its last step and is sent once; the session is written only in a step that
\* logs the session write after the audit write of the request (if it has one)
\* has completed or failed, an audit table is written only in a step that logs
\* the record, and nothing is written for a request that has responded.
C24_ConnectStepOrder ==
    /\ [](\A r \in Reqs :
             req[r].op = "connect"
             => LET log == req[r].log IN
                /\ log[1] = "validate"
                /\ \A i \in 1..Len(log) - 1 : StepRank[log[i]] <= StepRank[log[i + 1]]
                /\ \A i \in 1..Len(log) :
                      log[i] = "respond" <=> (i = Len(log) /\ req[r].pc = "done")
                /\ Cardinality({i \in 1..Len(log) : log[i] = "session"}) <= 1)
    /\ [][ \A r \in Reqs :
             /\ (req'[r] # req[r] /\ req'[r].op = "connect")
                => LET new == NewSteps(r) IN
                   /\ session' # session
                      => \E i \in 1..Len(new) : new[i] = "session"
                   /\ <<blocked_attempts, security_alerts>>'
                         # <<blocked_attempts, security_alerts>>
                      => \E i \in 1..Len(new) : new[i] = "record"
             /\ (req'[r] # req[r] /\ req[r].op = "connect" /\ req[r].pc = "done")
                => UNCHANGED <<Tables, session>> ]_vars

\* a connect that recorded an alert, then stored the connection, then
\* responded, and one whose audit write failed and that responded after it
C24_Witness ==
    /\ req["r1"].op = "connect" /\ req["r1"].pc = "done"
    /\ req["r1"].log = <<"validate", "decide", "decide", "record", "session", "respond">>
    /\ Len(security_alerts) > 0

\* ------------------------------------------------------------------ C25
\* C25: a row of security_alerts that is resolved keeps its resolved_at,
\* resolved_by and metadata in every later step, and a resolve answers
\* Resolved only in a step that found the row active, so of two interleaved
\* resolves of one active alert at most one updates it and reports success.
C25_ResolvedOnce ==
    [][ /\ \A i \in 1..Len(security_alerts) :
              security_alerts[i].status = "resolved"
              => /\ security_alerts'[i].resolved_at = security_alerts[i].resolved_at
                 /\ security_alerts'[i].resolved_by = security_alerts[i].resolved_by
                 /\ security_alerts'[i].metadata = security_alerts[i].metadata
        /\ \A r \in Reqs :
              (Responds(r, "resolve") /\ req'[r].kind = "Resolved")
              => \E a \in FindById(security_alerts, req[r].alertId) :
                    a.status = "active" ]_vars

\* ------------------------------------------------------------------ C26
\* the outcomes of a connect that refuse the connection
Refusals == {"InvalidInput", "NotFound", "DeviceOffline", "Forbidden", "StorageFailure"}

\* C26: every segment of a connect other than the one that answers Allowed
\* leaves the session as it is, and when a connect answers InvalidInput,
\* NotFound, DeviceOffline, Forbidden or StorageFailure the session of its
\* user holds exactly the connection it held before.
C26_RefusalKeepsConnection ==
    [][ \A r \in Reqs :
          LET q == req'[r] IN
          /\ (q # req[r] /\ q.op = "connect"
                 /\ ~(q.pc = "done" /\ q.kind = "Allowed"))
             => UNCHANGED session
          /\ (Responds(r, "connect") /\ q.kind \in Refusals)
             => session'[q.user] = q.before ]_vars

\* a user connected to one device is refused another and is still connected to
\* the first
C26_Witness ==
    \E r \in Reqs :
        /\ req[r].op = "connect" /\ req[r].pc = "done"
        /\ req[r].kind \in {"Forbidden", "StorageFailure"}
        /\ \E c \in req[r].before : c.id # req[r].deviceId
        /\ session[req[r].user] = req[r].before

\* ------------------------------------------------------------------ C27
\* the outcomes after which query makes another attempt
Retried == (QueryErrors \cup ConnectErrors) \ NoRetryCodes

C28_ClientsReleasedOnce ==
    /\ pool.over = 0
    /\ pool.held = IF call.fn # "none" /\ call.client = "held" THEN 1 ELSE 0
    /\ (call.fn = "none" \/ call.pc \in {"returned", "thrown"}) => pool.held = 0

\* a transaction whose ROLLBACK failed has thrown and released its client
C28_Witness ==
    /\ call.fn = "transaction" /\ call.pc = "thrown"
    /\ call.error = "08003" /\ call.client = "released"
    /\ pool.held = 0

\* ------------------------------------------------------------------ C29
\* the migrations table records filename as completed
Completed(tbl, filename) ==
    \E i \in 1..Len(tbl) : tbl[i].filename = filename /\ tbl[i].status = "completed"

\* a step calls executeMigration
StartsMigration == call.fn = "none" /\ call'.fn = "executeMigration"

\* the running executeMigration call throws in this step
MigrationThrows ==
    /\ call.fn = "executeMigration" /\ call.pc # "thrown"
    /\ call'.fn = "executeMigration" /\ call'.pc = "thrown"

\* C29: the pending list of a run is in ascending filename order and the files
\* executed are its first ones in that order; a file is executed only when the
\* table does not record it as completed and when every migration executed
\* before it in the run was completed (so none is executed after a failure);
\* and when a migration
\* fails no statement of it stays applied or open and it is not recorded as
\* completed.
C29_MigrationsInOrder ==
    /\ [](run.pc # "idle"
          => /\ \A i, j \in 1..Len(run.pending) :
                   i < j => Before(run.pending[i], run.pending[j])
             /\ Len(run.ran) <= Len(run.pending)
             /\ run.ran = SubSeq(run.pending, 1, Len(run.ran)))
    /\ [][ /\ StartsMigration
              => /\ ~Completed(migrations, call'.file)
                 /\ \A i \in 1..Len(run.ran) : Completed(migrations, run.ran[i])
           /\ MigrationThrows
              => /\ schema'.open = {}
                 /\ call.file \notin schema'.applied
                 /\ ~Completed(migrations', call.file) ]_vars

\* a run with three pending files whose second migration failed: the third
\* was not executed and nothing of the second is applied
C29_Witness ==
    /\ run.pc = "done" /\ ~run.success
    /\ Len(run.pending) = 3 /\ Len(run.ran) = 2
    /\ schema = [applied |-> {run.pending[1]}, open |-> {}]

\* ------------------------------------------------------------------ C30
\* C30: a migration that is not recorded as completed is pending in the next
\* run, and an executeMigration call in which the SQL of the file and every
\* other statement succeeds (no statement is made to fail by the pool or the
\* server) ends with the file recorded as completed, also when an earlier run
\* of the file failed.
C30_FailedMigrationCompletesLater ==
    [][ /\ (run.pc = "list" /\ run'.pc = "next")
           => \A f \in MigrationFiles :
                 ~Completed(migrations, f)
                 => \E i \in 1..Len(run'.pending) : run'.pending[i] = f
        /\ (/\ call.fn = "executeMigration"
            /\ call.pc \notin {"returned", "thrown"}
            /\ call'.fn = "executeMigration"
            /\ call'.pc \in {"returned", "thrown"}
            /\ ~call'.fault)
           => Completed(migrations', call.file) ]_vars

====
